---- MODULE Spec2Model ----
(***************************************************************************)
(* Model of the action-stream codec of genie-rec (crates/genie-rec/src/    *)
(* actions.rs): the object-list codec, the command variant decoders and    *)
(* encoders, and the frame codec Command::read_from; and of the reader of  *)
(* unit action lists (unit_action.rs).                                     *)
(*                                                                         *)
(* Representation.  A byte stream is a sequence of naturals 0..255.  A     *)
(* cursor is the number of bytes consumed so far (p) together with the    *)
(* offset at which the readable region ends (e): the end of the stream,   *)
(* or the limit of the io::Take adaptor inside Command::read_from.        *)
(* Every 32-bit quantity (u32, i32, f32) is carried as the signed integer *)
(* that has the same bit pattern, so 0xFFFFFFFF is -1 and 0x80000000 is   *)
(* -2^31; an unsigned value is >= 2^31 exactly when its carrier is        *)
(* negative.  Floats are carried as their bit patterns: the codec only    *)
(* moves them, except for f32_neq, which is modelled on the bits.         *)
(***************************************************************************)
EXTENDS Integers, Sequences, FiniteSets, TLC

VARIABLES input, pos, arg, x, output, result, log, pc

vars == <<input, pos, arg, x, output, result, log, pc>>

-----------------------------------------------------------------------------
(* Bounds of the model.                                                    *)

\* Longest explicit object list the enumerated inputs carry.
MaxIds == 2

\* Most frames in one enumerated stream.
MaxFrames == 2

-----------------------------------------------------------------------------
(* Primitive field codec (byteorder's ReadBytesExt / WriteBytesExt, LE).   *)

Byte == 0..255

\* n more bytes can be read at p before the region ends at e.
Avail(p, e, n) == p + n <= e

read_u8(s, p) == s[p + 1]

read_i8(s, p) == IF s[p + 1] >= 128 THEN s[p + 1] - 256 ELSE s[p + 1]

read_u16(s, p) == s[p + 1] + 256 * s[p + 2]

read_i16(s, p) ==
    LET u == s[p + 1] + 256 * s[p + 2]
    IN  IF u >= 32768 THEN u - 65536 ELSE u

\* read_u32 / read_i32 / read_f32: the 32-bit pattern, carried signed.
read_32(s, p) ==
    s[p + 1] + 256 * s[p + 2] + 65536 * s[p + 3]
      + 16777216 * (IF s[p + 4] >= 128 THEN s[p + 4] - 256 ELSE s[p + 4])

write_u8(v) == <<v % 256>>

write_u16(v) == <<v % 256, (v \div 256) % 256>>

\* write_u32 / write_i32 / write_f32 of a 32-bit pattern.
write_32(v) ==
    <<v % 256, (v \div 256) % 256, (v \div 65536) % 256, (v \div 16777216) % 256>>

\* A run of 32-bit values, each written little-endian.
write_32s(vs) ==
    [i \in 1..(4 * Len(vs)) |-> write_32(vs[(i - 1) \div 4 + 1])[((i - 1) % 4) + 1]]

Zeros(n) == [i \in 1..n |-> 0]

\* Concatenation of a sequence of byte sequences.
RECURSIVE Flatten(_)
Flatten(ss) == IF ss = <<>> THEN <<>> ELSE Head(ss) \o Flatten(Tail(ss))

-----------------------------------------------------------------------------
(* Outcomes.  A decoder returns Ok(value), Err (an io::Error from a short  *)
(* read) or unwinds (a failed unwrap / assert / panic!).  pos is the       *)
(* cursor afterwards.                                                      *)

NoVal == [type |-> "none"]

Ok(v, p) == [st |-> "Ok", val |-> v, pos |-> p]

\* A short read_exact takes what is left of the region before it fails.
Err(e) == [st |-> "Err", val |-> NoVal, pos |-> e]

Panic(p) == [st |-> "Panic", val |-> NoVal, pos |-> p]

\* Option<T>
None == <<>>

Some(v) == <<v>>

\* An encoder returns the bytes written, or unwinds.
Written(b) == [st |-> "Ok", bytes |-> b]

WritePanic == [st |-> "Panic", bytes |-> <<>>]

-----------------------------------------------------------------------------
(* ObjectsList                                                             *)

SameAsLast == [kind |-> "SameAsLast", list |-> <<>>]

List(l) == [kind |-> "List", list |-> l]

\* The loop of ObjectsList::read_from, for count identifiers, in closed
\* form.  Each identifier is read as i32 (Err when fewer than 4 bytes are
\* left) and then narrowed to ObjectID by try_into().unwrap(), which unwinds
\* on a negative value; the first identifier that fails either way ends the
\* loop.
ObjectsList_read_loop(s, p, e, count) ==
    LET n == IF count < 0 THEN 0 ELSE count
        whole == (e - p) \div 4
        m == IF n < whole THEN n ELSE whole
        id(i) == read_32(s, p + 4 * (i - 1))
        bad == {i \in 1..m : id(i) < 0}
    IN  IF bad # {} THEN Panic(p + 4 * (CHOOSE i \in bad : \A j \in bad : i <= j))
        ELSE IF n > whole THEN Err(e)
        ELSE Ok(List([i \in 1..n |-> id(i)]), p + 4 * n)

\* The threshold off by one: a count of 255 read as a list.
ObjectsList_read_from_le(s, p, e, count) ==
    IF count <= 255
    THEN ObjectsList_read_loop(s, p, e, count)
    ELSE Ok(SameAsLast, p)

\* The count from which ObjectsList::read_from yields the reuse marker.
MarkerCount == 255

\* The marker resolved by the codec: a list made of the first word of the
\* stream, which an earlier record owns.
ObjectsList_read_from_resolving(s, p, e, count) ==
    IF count < MarkerCount
    THEN ObjectsList_read_loop(s, p, e, count)
    ELSE Ok(IF Len(s) >= 4 THEN List(<<read_32(s, 0)>>) ELSE SameAsLast, p)

ObjectsList_read_from(s, p, e, count) ==
    IF count < MarkerCount
    THEN ObjectsList_read_loop(s, p, e, count)
    ELSE Ok(SameAsLast, p)

\* The loop of ObjectsList::write_to: write_u32 of each entry in turn.
ObjectsList_write_loop(l) ==
    [i \in 1..(4 * Len(l)) |-> write_32(l[(i - 1) \div 4 + 1])[((i - 1) % 4) + 1]]

ObjectsList_write_to(objects) ==
    IF objects.kind = "List" THEN ObjectsList_write_loop(objects.list) ELSE <<>>

ObjectsList_len(objects) ==
    IF objects.kind = "SameAsLast" THEN 0 ELSE Len(objects.list)

-----------------------------------------------------------------------------
(* Conversions between field types and identifier types.                   *)

\* ObjectID::try_from(i32) and i32::try_from(ObjectID): ObjectID wraps a
\* u32, so the conversion succeeds exactly when the top bit is clear.
ObjectID_fits(v) == v >= 0

\* i32::try_from(u32): the value fits when the top bit is clear.
i32_fits(v) == v >= 0

\* PlayerID::try_from(i8 / i16 / i32 / u32): PlayerID wraps a u8.
PlayerID_fits(v) == v >= 0 /\ v <= 255

\* genie_support::read_opt_u32: 0xFFFFFFFF is None, anything else Some.
read_opt_u32(s, p) == IF read_32(s, p) = -1 THEN None ELSE Some(read_32(s, p))

\* genie_support::ReadSkipExt::skip copies up to n bytes into a sink: at the
\* end of the region it stops early without an error.
skip(p, e, n) == IF p + n <= e THEN p + n ELSE e

\* Bit pattern of the f32 -1.0 (0xBF800000).
F32MinusOne == -1082130432

\* Bit pattern of the f32 1.0: that of -1.0 with the sign bit cleared.
F32One == F32MinusOne + 2147483647 + 1

\* An f32 bit pattern that is a NaN: exponent all ones, mantissa non-zero.
F32IsNaN(b) == (b \div 8388608) % 256 = 255 /\ b % 8388608 # 0

\* genie_support::f32_neq!(v, -1.0): |v - (-1.0)| > f32::EPSILON.  The
\* floats within EPSILON of -1.0 are the four patterns around 0xBF800000;
\* a NaN compares false.
f32_neq_minus_one(b) ==
    /\ ~F32IsNaN(b)
    /\ ~(b >= F32MinusOne - 2 /\ b <= F32MinusOne + 1)

-----------------------------------------------------------------------------
(* Command variant decoders.  Each takes the stream s, the cursor p and    *)
(* the region end e.  The reads of a fixed part fail only by running out   *)
(* of bytes, so one Avail test stands for its chain of `?`; a conversion   *)
(* that can unwind is tested at the place in the chain where it stands.    *)

\* Attach a decoded object list to the fixed fields of a command.
WithObjects(fixed, field, r) ==
    IF r.st = "Ok"
    THEN Ok([f \in (DOMAIN fixed) \cup {field} |->
                IF f = field THEN r.val ELSE fixed[f]], r.pos)
    ELSE r

OrderCommand_read_from(s, p, e) ==
    IF ~Avail(p, e, 19) THEN Err(e)
    ELSE WithObjects([type |-> "Order",
                      player_id |-> read_u8(s, p),
                      target_id |-> read_opt_u32(s, p + 3),
                      location |-> <<read_32(s, p + 11), read_32(s, p + 15)>>],
                     "objects",
                     ObjectsList_read_from(s, p + 19, e, read_32(s, p + 7)))

\* The count byte of Stop read as an unsigned byte.
StopCommand_read_from_unsigned(s, p, e) ==
    IF ~Avail(p, e, 1) THEN Err(e)
    ELSE WithObjects([type |-> "Stop"], "objects",
                     ObjectsList_read_from(s, p + 1, e, read_u8(s, p)))

StopCommand_read_from(s, p, e) ==
    IF ~Avail(p, e, 1) THEN Err(e)
    ELSE WithObjects([type |-> "Stop"], "objects",
                     ObjectsList_read_from(s, p + 1, e, read_i8(s, p)))

WorkCommand_read_from(s, p, e) ==
    IF ~Avail(p, e, 19) THEN Err(e)
    ELSE WithObjects([type |-> "Work",
                      target_id |-> read_opt_u32(s, p + 3),
                      location |-> <<read_32(s, p + 11), read_32(s, p + 15)>>],
                     "objects",
                     ObjectsList_read_from(s, p + 19, e, read_i8(s, p + 7)))

MoveCommand_read_from(s, p, e) ==
    IF ~Avail(p, e, 19) THEN Err(e)
    ELSE WithObjects([type |-> "Move",
                      player_id |-> read_u8(s, p),
                      target_id |-> read_opt_u32(s, p + 3),
                      location |-> <<read_32(s, p + 11), read_32(s, p + 15)>>],
                     "objects",
                     ObjectsList_read_from(s, p + 19, e, read_i8(s, p + 7)))

CreateCommand_read_from(s, p, e) ==
    IF ~Avail(p, e, 17) THEN Err(e)
    ELSE Ok([type |-> "Create",
             unit_type_id |-> read_u16(s, p + 1),
             player_id |-> read_u8(s, p + 3),
             location |-> <<read_32(s, p + 5), read_32(s, p + 9), read_32(s, p + 13)>>],
            p + 17)

AddResourceCommand_read_from(s, p, e) ==
    IF ~Avail(p, e, 7) THEN Err(e)
    ELSE Ok([type |-> "AddResource",
             player_id |-> read_u8(s, p),
             resource |-> read_u8(s, p + 1),
             amount |-> read_32(s, p + 3)],
            p + 7)

\* The decoder without its single-object case: the list always follows.
AIOrderCommand_read_from_listed(s, p, e) ==
    IF ~Avail(p, e, 16) THEN Err(e)
    ELSE IF read_i8(s, p + 15) # -1 /\ ~PlayerID_fits(read_i8(s, p + 15))
    THEN Panic(p + 16)
    ELSE IF ~Avail(p, e, 39) THEN Err(e)
    ELSE WithObjects([type |-> "AIOrder",
                      player_id |-> read_u8(s, p + 1),
                      issuer |-> read_u8(s, p + 2),
                      order_type |-> read_u16(s, p + 7),
                      order_priority |-> read_i8(s, p + 9),
                      target_id |-> read_opt_u32(s, p + 11),
                      target_player_id |->
                          IF read_i8(s, p + 15) = -1 THEN None
                          ELSE Some(read_i8(s, p + 15)),
                      target_location |->
                          <<read_32(s, p + 19), read_32(s, p + 23), read_32(s, p + 27)>>,
                      range |-> read_32(s, p + 31),
                      immediate |-> read_u8(s, p + 35) # 0,
                      add_to_front |-> read_u8(s, p + 36) # 0],
                     "objects",
                     ObjectsList_read_from(s, p + 39, e, read_i8(s, p)))

AIOrderCommand_read_from(s, p, e) ==
    IF ~Avail(p, e, 16) THEN Err(e)
    ELSE IF read_i8(s, p + 15) # -1 /\ ~PlayerID_fits(read_i8(s, p + 15))
    THEN Panic(p + 16)
    ELSE IF ~Avail(p, e, 39) THEN Err(e)
    ELSE WithObjects([type |-> "AIOrder",
                      player_id |-> read_u8(s, p + 1),
                      issuer |-> read_u8(s, p + 2),
                      order_type |-> read_u16(s, p + 7),
                      order_priority |-> read_i8(s, p + 9),
                      target_id |-> read_opt_u32(s, p + 11),
                      target_player_id |->
                          IF read_i8(s, p + 15) = -1 THEN None
                          ELSE Some(read_i8(s, p + 15)),
                      target_location |->
                          <<read_32(s, p + 19), read_32(s, p + 23), read_32(s, p + 27)>>,
                      range |-> read_32(s, p + 31),
                      immediate |-> read_u8(s, p + 35) # 0,
                      add_to_front |-> read_u8(s, p + 36) # 0],
                     "objects",
                     IF read_i8(s, p) = 1
                     THEN Ok(List(<<read_32(s, p + 3)>>), p + 39)
                     ELSE ObjectsList_read_from(s, p + 39, e, read_i8(s, p)))

ResignCommand_read_from(s, p, e) ==
    IF ~Avail(p, e, 3) THEN Err(e)
    ELSE Ok([type |-> "Resign",
             player_id |-> read_u8(s, p),
             comm_player_id |-> read_u8(s, p + 1),
             dropped |-> read_u8(s, p + 2) # 0],
            p + 3)

GroupWaypointCommand_read_from(s, p, e) ==
    IF ~Avail(p, e, 4) THEN Err(e)
    ELSE WithObjects([type |-> "GroupWaypoint",
                      player_id |-> read_u8(s, p),
                      location |-> <<read_u8(s, p + 2), read_u8(s, p + 3)>>],
                     "objects",
                     ObjectsList_read_from(s, p + 4, e, read_u8(s, p + 1)))

UnitAIStateCommand_read_from(s, p, e) ==
    IF ~Avail(p, e, 2) THEN Err(e)
    ELSE WithObjects([type |-> "UnitAIState", state |-> read_i8(s, p + 1)],
                     "objects",
                     ObjectsList_read_from(s, p + 2, e, read_u8(s, p)))

GuardCommand_read_from(s, p, e) ==
    IF ~Avail(p, e, 7) THEN Err(e)
    ELSE WithObjects([type |-> "Guard", target_id |-> read_opt_u32(s, p + 3)],
                     "objects",
                     ObjectsList_read_from(s, p + 7, e, read_u8(s, p)))

\* The Follow arm handing its payload to the decoder of Guard.
FollowCommand_read_from_as_guard(s, p, e) ==
    IF ~Avail(p, e, 7) THEN Err(e)
    ELSE WithObjects([type |-> "Guard", target_id |-> read_opt_u32(s, p + 3)],
                     "objects",
                     ObjectsList_read_from(s, p + 7, e, read_u8(s, p)))

FollowCommand_read_from(s, p, e) ==
    IF ~Avail(p, e, 7) THEN Err(e)
    ELSE WithObjects([type |-> "Follow", target_id |-> read_opt_u32(s, p + 3)],
                     "objects",
                     ObjectsList_read_from(s, p + 7, e, read_u8(s, p)))

\* The buffer read row by row: X and Y of a waypoint next to each other.
raw_waypoints_by_row(s, p) ==
    [i \in 1..10 |-> <<read_32(s, p + 8 * (i - 1)), read_32(s, p + 8 * (i - 1) + 4)>>]

\* Waypoint i of the fixed buffer: the i-th X and the i-th Y value.
raw_waypoints(s, p) ==
    [i \in 1..10 |-> <<read_32(s, p + 4 * (i - 1)), read_32(s, p + 40 + 4 * (i - 1))>>]

PatrolCommand_read_from(s, p, e) ==
    IF ~Avail(p, e, 83) THEN Err(e)
    ELSE IF read_u8(s, p + 1) > 10 THEN Panic(p + 83)
    ELSE WithObjects([type |-> "Patrol",
                      waypoints |-> SubSeq(raw_waypoints(s, p + 3), 1, read_u8(s, p + 1))],
                     "objects",
                     ObjectsList_read_from(s, p + 83, e, read_i8(s, p)))

FormFormationCommand_read_from(s, p, e) ==
    IF ~Avail(p, e, 7) THEN Err(e)
    ELSE WithObjects([type |-> "FormFormation",
                      player_id |-> read_u8(s, p + 1),
                      formation_type |-> read_32(s, p + 3)],
                     "objects",
                     ObjectsList_read_from(s, p + 7, e, read_i8(s, p)))

\* The parameter loop of UserPatchAICommand::read_from.
RECURSIVE UserPatchAI_read_params(_, _, _, _, _)
UserPatchAI_read_params(s, p, e, k, params) ==
    IF k = 0 THEN Ok(params, p)
    ELSE IF ~Avail(p, e, 4) THEN Err(e)
    ELSE UserPatchAI_read_params(s, p + 4, e, k - 1, Append(params, read_32(s, p)))

\* size is the declared frame length (u32).  size - 4 underflows for
\* size < 4: an overflow panic in a checked build, a wrapped huge count
\* that fails the assertion in an unchecked one.
UserPatchAICommand_read_from(s, p, e, size) ==
    IF size < 0 \/ size < 4 \/ (size - 4) \div 4 >= 4 THEN Panic(p)
    ELSE IF ~Avail(p, e, 3) THEN Err(e)
    ELSE LET params == UserPatchAI_read_params(s, p + 3, e, (size - 4) \div 4, <<>>)
         IN  IF params.st # "Ok" THEN params
             ELSE Ok([type |-> "UserPatchAI",
                      ai_action |-> read_u8(s, p),
                      player_id |-> read_u8(s, p + 1),
                      params |-> params.val],
                     params.pos)

MakeCommand_read_from(s, p, e) ==
    IF ~Avail(p, e, 15) THEN Err(e)
    ELSE Ok([type |-> "Make",
             building_id |-> read_32(s, p + 3),
             player_id |-> read_u8(s, p + 7),
             unit_type_id |-> read_u16(s, p + 9),
             target_id |-> read_opt_u32(s, p + 11)],
            p + 15)

ResearchCommand_read_from(s, p, e) ==
    IF ~Avail(p, e, 15) THEN Err(e)
    ELSE Ok([type |-> "Research",
             building_id |-> read_32(s, p + 3),
             player_id |-> read_u8(s, p + 7),
             tech_id |-> read_u16(s, p + 9),
             target_id |-> read_opt_u32(s, p + 11)],
            p + 15)

BuildCommand_read_from(s, p, e) ==
    IF ~Avail(p, e, 23) THEN Err(e)
    ELSE WithObjects([type |-> "Build",
                      player_id |-> read_u8(s, p + 1),
                      location |-> <<read_32(s, p + 3), read_32(s, p + 7)>>,
                      unit_type_id |-> read_u16(s, p + 11),
                      unique_id |-> read_opt_u32(s, p + 15),
                      frame |-> read_u8(s, p + 19)],
                     "builders",
                     ObjectsList_read_from(s, p + 23, e, read_i8(s, p)))

\* One more sub-opcode, 0x08, in the table.
GameSubOpcodes_more == {1, 2, 3, 4, 5, 6, 7, 8, 10, 11, 12, 13, 14, 16}

\* The sub-opcodes GameCommand::read_from knows.
GameSubOpcodes == {1, 2, 3, 4, 5, 6, 7, 10, 11, 12, 13, 14, 16}

\* The nested record read with four bytes of padding instead of two.
RawGameCommand_read_from_wide(s, p, e) ==
    IF ~Avail(p, e, 17) THEN Err(e)
    ELSE Ok([game_command |-> read_u8(s, p),
             var1 |-> read_i16(s, p + 1),
             var2 |-> read_i16(s, p + 3),
             var3 |-> read_32(s, p + 9),
             var4 |-> read_32(s, p + 13)],
            p + 17)

RawGameCommand_read_from(s, p, e) ==
    IF ~Avail(p, e, 15) THEN Err(e)
    ELSE Ok([game_command |-> read_u8(s, p),
             var1 |-> read_i16(s, p + 1),
             var2 |-> read_i16(s, p + 3),
             var3 |-> read_32(s, p + 7),
             var4 |-> read_32(s, p + 11)],
            p + 15)

GameCommand_read_from(s, p, e) ==
    LET raw == RawGameCommand_read_from(s, p, e)
        r == raw.val
        sub == r.game_command
        base == [type |-> "Game", game_command |-> sub, player_id |-> r.var1]
    IN  IF raw.st # "Ok" THEN raw
        ELSE IF sub \notin GameSubOpcodes THEN Panic(raw.pos)
        ELSE IF ~PlayerID_fits(r.var1) THEN Panic(raw.pos)
        ELSE IF sub = 1 THEN Ok(base @@ [speed |-> r.var3], raw.pos)
        ELSE IF sub = 2
             THEN Ok(base @@ [attribute_id |-> r.var2, amount |-> r.var3], raw.pos)
        ELSE IF sub = 5 THEN Ok(base @@ [status |-> r.var2 # 0], raw.pos)
        ELSE IF sub = 6 THEN Ok(base @@ [cheat_id |-> r.var2], raw.pos)
        ELSE IF sub = 11
             THEN IF ~i32_fits(r.var4) THEN Panic(raw.pos)
                  ELSE Ok(base @@ [strategic_number |-> r.var2, value |-> r.var4], raw.pos)
        ELSE IF sub \in {13, 14} THEN Ok(base @@ [amount |-> r.var2], raw.pos)
        ELSE Ok(base, raw.pos)

\* read_i32_into of BuildWallCommand::read_from: all n values are read
\* before any of them is narrowed.
BuildWall_raw_list(s, p, n) == [i \in 1..n |-> read_32(s, p + 4 * (i - 1))]

\* The decoder without list.clear(): a lone identifier of -1 is kept.
BuildWallCommand_read_from_kept(s, p, e) ==
    LET selected_count == read_i8(s, p)
        fixed == [type |-> "BuildWall",
                  player_id |-> read_u8(s, p + 1),
                  start |-> <<read_u8(s, p + 2), read_u8(s, p + 3)>>,
                  end |-> <<read_u8(s, p + 4), read_u8(s, p + 5)>>,
                  unit_type_id |-> read_u16(s, p + 7)]
        raw == BuildWall_raw_list(s, p + 15, selected_count)
        list == raw
    IN  IF ~Avail(p, e, 15) THEN Err(e)
        ELSE IF read_32(s, p + 11) # -1 THEN Panic(p + 15)
        ELSE IF selected_count = -1
             THEN WithObjects(fixed, "builders", Ok(SameAsLast, p + 15))
        ELSE IF selected_count < 0 THEN Panic(p + 15)
        ELSE IF ~Avail(p + 15, e, 4 * selected_count) THEN Err(e)
        ELSE IF \E i \in 1..Len(list) : ~ObjectID_fits(list[i])
             THEN Panic(p + 15 + 4 * selected_count)
        ELSE WithObjects(fixed, "builders", Ok(List(list), p + 15 + 4 * selected_count))

BuildWallCommand_read_from(s, p, e) ==
    LET selected_count == read_i8(s, p)
        fixed == [type |-> "BuildWall",
                  player_id |-> read_u8(s, p + 1),
                  start |-> <<read_u8(s, p + 2), read_u8(s, p + 3)>>,
                  end |-> <<read_u8(s, p + 4), read_u8(s, p + 5)>>,
                  unit_type_id |-> read_u16(s, p + 7)]
        raw == BuildWall_raw_list(s, p + 15, selected_count)
        list == IF selected_count = 1 /\ raw[1] = -1 THEN <<>> ELSE raw
    IN  IF ~Avail(p, e, 15) THEN Err(e)
        ELSE IF read_32(s, p + 11) # -1 THEN Panic(p + 15)
        ELSE IF selected_count = -1
             THEN WithObjects(fixed, "builders", Ok(SameAsLast, p + 15))
        ELSE IF selected_count < 0 THEN Panic(p + 15)
        ELSE IF ~Avail(p + 15, e, 4 * selected_count) THEN Err(e)
        ELSE IF \E i \in 1..Len(list) : ~ObjectID_fits(list[i])
             THEN Panic(p + 15 + 4 * selected_count)
        ELSE WithObjects(fixed, "builders", Ok(List(list), p + 15 + 4 * selected_count))

CancelBuildCommand_read_from(s, p, e) ==
    IF ~Avail(p, e, 11) THEN Err(e)
    ELSE IF ~PlayerID_fits(read_32(s, p + 7)) THEN Panic(p + 11)
    ELSE Ok([type |-> "CancelBuild",
             building_id |-> read_32(s, p + 3),
             player_id |-> read_32(s, p + 7)],
            p + 11)

AttackGroundCommand_read_from(s, p, e) ==
    IF ~Avail(p, e, 11) THEN Err(e)
    ELSE WithObjects([type |-> "AttackGround",
                      location |-> <<read_32(s, p + 3), read_32(s, p + 7)>>],
                     "objects",
                     ObjectsList_read_from(s, p + 11, e, read_i8(s, p)))

RepairCommand_read_from(s, p, e) ==
    IF ~Avail(p, e, 7) THEN Err(e)
    ELSE WithObjects([type |-> "Repair", target_id |-> read_opt_u32(s, p + 3)],
                     "repairers",
                     ObjectsList_read_from(s, p + 7, e, read_u8(s, p)))

\* Some((x, y)) unless either coordinate is (about) -1.0.
OptLocation(xb, yb) ==
    IF f32_neq_minus_one(xb) /\ f32_neq_minus_one(yb) THEN Some(<<xb, yb>>) ELSE None

UngarrisonCommand_read_from(s, p, e) ==
    IF ~Avail(p, e, 19) THEN Err(e)
    ELSE WithObjects([type |-> "Ungarrison",
                      location |-> OptLocation(read_32(s, p + 3), read_32(s, p + 7)),
                      ungarrison_type |-> read_i8(s, p + 11),
                      unit_type_id |-> read_opt_u32(s, p + 15)],
                     "objects",
                     ObjectsList_read_from(s, p + 19, e, read_i8(s, p)))

FlareCommand_read_from(s, p, e) ==
    IF ~Avail(p, e, 7) THEN Err(e)
    ELSE IF read_32(s, p + 3) # -1 THEN Panic(p + 7)
    ELSE IF ~Avail(p, e, 29) THEN Err(e)
    ELSE Ok([type |-> "Flare",
             recipients |-> [i \in 1..9 |-> read_u8(s, p + 6 + i) # 0],
             location |-> <<read_32(s, p + 19), read_32(s, p + 23)>>,
             player_id |-> read_u8(s, p + 27),
             comm_player_id |-> read_u8(s, p + 28)],
            skip(p + 29, e, 2))

UnitOrderCommand_read_from(s, p, e) ==
    IF ~Avail(p, e, 23) THEN Err(e)
    ELSE WithObjects([type |-> "UnitOrder",
                      target_id |-> read_opt_u32(s, p + 3),
                      action |-> read_i8(s, p + 7),
                      param |-> IF read_i8(s, p + 8) = -1 THEN None
                                ELSE Some(read_u8(s, p + 8)),
                      location |-> OptLocation(read_32(s, p + 11), read_32(s, p + 15)),
                      unique_id |-> read_opt_u32(s, p + 19)],
                     "objects",
                     ObjectsList_read_from(s, p + 23, e, read_i8(s, p)))

QueueCommand_read_from(s, p, e) ==
    IF ~Avail(p, e, 11) THEN Err(e)
    ELSE Ok([type |-> "Queue",
             building_id |-> read_32(s, p + 3),
             unit_type_id |-> read_u16(s, p + 7),
             amount |-> read_u16(s, p + 9)],
            p + 11)

SetGatherPointCommand_read_from(s, p, e) ==
    IF ~Avail(p, e, 19) THEN Err(e)
    ELSE WithObjects([type |-> "SetGatherPoint",
                      target_id |-> read_opt_u32(s, p + 3),
                      target_type_id |-> IF read_u16(s, p + 7) = 65535 THEN None
                                         ELSE Some(read_u16(s, p + 7)),
                      location |-> Some(<<read_32(s, p + 11), read_32(s, p + 15)>>)],
                     "buildings",
                     ObjectsList_read_from(s, p + 19, e, read_i8(s, p)))

\* buy_sell_impl!: SellResourceCommand and BuyResourceCommand.
buy_sell_read_from(name, s, p, e) ==
    IF ~Avail(p, e, 7) THEN Err(e)
    ELSE Ok([type |-> name,
             player_id |-> read_u8(s, p),
             resource |-> read_u8(s, p + 1),
             amount |-> read_i8(s, p + 2),
             market_id |-> read_32(s, p + 3)],
            p + 7)

Unknown7FCommand_read_from(s, p, e) ==
    IF ~Avail(p, e, 11) THEN Err(e)
    ELSE Ok([type |-> "Unknown7F",
             object_id |-> read_32(s, p + 3),
             value |-> read_32(s, p + 7)],
            p + 11)

BackToWorkCommand_read_from(s, p, e) ==
    IF ~Avail(p, e, 7) THEN Err(e)
    ELSE Ok([type |-> "BackToWork", building_id |-> read_32(s, p + 3)], p + 7)

-----------------------------------------------------------------------------
(* Decoders of the actions that are not commands.                          *)

\* ViewLock::read_from
ViewLock_read_from(s, p, e) ==
    IF ~Avail(p, e, 12) THEN Err(e)
    ELSE IF ~PlayerID_fits(read_32(s, p + 8)) THEN Panic(p + 12)
    ELSE Ok([type |-> "ViewLock", x |-> read_32(s, p), y |-> read_32(s, p + 4),
             player |-> read_32(s, p + 8)],
            p + 12)

\* The block Sync::read_from skips when the action checksum is not 0.
SyncBlock == 332

\* Sync::read_from skipping the block whatever the action checksum is.
Sync_read_from_always(s, p, e) ==
    IF ~Avail(p, e, 16) THEN Err(e)
    ELSE LET q == skip(p + 16, e, SyncBlock)
         IN  IF ~Avail(q, e, 8) THEN Err(e)
             ELSE Ok([type |-> "Sync", checksum |-> read_32(s, p + 4),
                      position_checksum |-> read_32(s, p + 8),
                      action_checksum |-> read_32(s, p + 12),
                      next_world_time |-> read_32(s, q + 4)],
                     q + 8)

\* Sync::read_from
Sync_read_from(s, p, e) ==
    IF ~Avail(p, e, 16) THEN Err(e)
    ELSE LET q == IF read_32(s, p + 12) # 0 THEN skip(p + 16, e, SyncBlock)
                  ELSE p + 16
         IN  IF ~Avail(q, e, 8) THEN Err(e)
             ELSE Ok([type |-> "Sync", checksum |-> read_32(s, p + 4),
                      position_checksum |-> read_32(s, p + 8),
                      action_checksum |-> read_32(s, p + 12),
                      next_world_time |-> read_32(s, q + 4)],
                     q + 8)

\* genie_support::ReadStringsExt::read_u32_length_prefixed_str: a 32-bit
\* length, 0xFFFFFFFF for no string, then that many bytes; the string ends
\* at the first NUL.  The message is kept as its bytes.
read_u32_length_prefixed_str(s, p, e) ==
    IF ~Avail(p, e, 4) THEN Err(e)
    ELSE LET len == read_32(s, p)
         IN  IF len = -1 THEN Ok(None, p + 4)
             ELSE IF len < 0 \/ ~Avail(p + 4, e, len) THEN Err(e)
             ELSE LET bytes == SubSeq(s, p + 5, p + 4 + len)
                      nul == {i \in 1..len : bytes[i] = 0}
                      end == IF nul = {} THEN len
                             ELSE (CHOOSE i \in nul : \A j \in nul : i <= j) - 1
                  IN  Ok(IF end = 0 THEN None ELSE Some(SubSeq(bytes, 1, end)),
                         p + 4 + len)

\* Chat::read_from
Chat_read_from(s, p, e) ==
    IF ~Avail(p, e, 4) THEN Err(e)
    ELSE IF read_32(s, p) # -1 THEN Panic(p + 4)
    ELSE LET str == read_u32_length_prefixed_str(s, p + 4, e)
         IN  IF str.st # "Ok" THEN str
             ELSE Ok([type |-> "Chat",
                      message |-> IF str.val = None THEN <<>> ELSE str.val[1]],
                     str.pos)

-----------------------------------------------------------------------------
(* Command variant encoders.  Each returns the bytes it writes, or unwinds *)
(* when an unwrap on a narrowing conversion fails.                         *)

write_i8(v) == <<v % 256>>

\* target_id.map(|id| id.try_into().unwrap()).unwrap_or(-1), as i32.
target_fits_i32(t) == t = None \/ i32_fits(t[1])

\* An absent target written as 0.
target_bits_zero(t) == IF t = None THEN 0 ELSE t[1]

target_bits(t) == IF t = None THEN -1 ELSE t[1]

OrderCommand_write_to(c) ==
    IF ~target_fits_i32(c.target_id) THEN WritePanic
    ELSE Written(write_u8(c.player_id) \o Zeros(2)
                   \o write_32(target_bits(c.target_id))
                   \o write_32(ObjectsList_len(c.objects))
                   \o write_32(c.location[1]) \o write_32(c.location[2])
                   \o ObjectsList_write_to(c.objects))

\* As OrderCommand::write_to does it: the count as a 32-bit field.
StopCommand_write_to_wide(c) ==
    Written(write_32(ObjectsList_len(c.objects)) \o ObjectsList_write_to(c.objects))

StopCommand_write_to(c) ==
    IF ObjectsList_len(c.objects) > 127 THEN WritePanic
    ELSE Written(write_i8(ObjectsList_len(c.objects))
                   \o ObjectsList_write_to(c.objects))

WorkCommand_write_to(c) ==
    IF ObjectsList_len(c.objects) > 127 THEN WritePanic
    ELSE Written(Zeros(3)
                   \o write_32(target_bits(c.target_id))
                   \o write_i8(ObjectsList_len(c.objects)) \o Zeros(3)
                   \o write_32(c.location[1]) \o write_32(c.location[2])
                   \o ObjectsList_write_to(c.objects))

MoveCommand_write_to(c) ==
    IF ObjectsList_len(c.objects) > 127 THEN WritePanic
    ELSE Written(Zeros(3)
                   \o write_32(target_bits(c.target_id))
                   \o write_i8(ObjectsList_len(c.objects)) \o Zeros(3)
                   \o write_32(c.location[1]) \o write_32(c.location[2])
                   \o ObjectsList_write_to(c.objects))

AIOrderCommand_write_to(c) ==
    IF ObjectsList_len(c.objects) > 127 THEN WritePanic
    ELSE IF ~target_fits_i32(c.target_id) THEN WritePanic
    ELSE Written(write_i8(ObjectsList_len(c.objects))
                   \o write_u8(c.player_id) \o write_u8(c.issuer)
                   \o (IF c.objects.kind = "List" /\ Len(c.objects.list) = 1
                       THEN write_32(c.objects.list[1]) ELSE write_32(-1))
                   \o write_u16(c.order_type) \o write_i8(c.order_priority) \o Zeros(1)
                   \o write_32(target_bits(c.target_id))
                   \o write_u8(c.player_id) \o Zeros(3)
                   \o write_32(c.target_location[1]) \o write_32(c.target_location[2])
                   \o write_32(c.target_location[3])
                   \o write_32(c.range)
                   \o write_u8(IF c.immediate THEN 1 ELSE 0)
                   \o write_u8(IF c.add_to_front THEN 1 ELSE 0)
                   \o Zeros(2)
                   \o (IF ObjectsList_len(c.objects) > 1
                       THEN ObjectsList_write_to(c.objects) ELSE <<>>))

GroupWaypointCommand_write_to(c) ==
    IF ObjectsList_len(c.objects) > 255 THEN WritePanic
    ELSE Written(write_u8(c.player_id) \o write_u8(ObjectsList_len(c.objects))
                   \o write_u8(c.location[1]) \o write_u8(c.location[2])
                   \o ObjectsList_write_to(c.objects))

UnitAIStateCommand_write_to(c) ==
    IF ObjectsList_len(c.objects) > 255 THEN WritePanic
    ELSE Written(write_u8(ObjectsList_len(c.objects)) \o write_i8(c.state)
                   \o ObjectsList_write_to(c.objects))

\* GuardCommand, FollowCommand and RepairCommand::write_to share one body.
targeted_write_to(target_id, objects) ==
    IF ObjectsList_len(objects) > 255 THEN WritePanic
    ELSE IF ~target_fits_i32(target_id) THEN WritePanic
    ELSE Written(write_u8(ObjectsList_len(objects)) \o Zeros(2)
                   \o write_32(target_bits(target_id))
                   \o ObjectsList_write_to(objects))

GuardCommand_write_to(c) == targeted_write_to(c.target_id, c.objects)

FollowCommand_write_to(c) == targeted_write_to(c.target_id, c.objects)

RepairCommand_write_to(c) == targeted_write_to(c.target_id, c.repairers)

\* waypoints.get(i).cloned().unwrap_or_default(): (0.0, 0.0) past the end.
waypoint_or_default(w, i) == IF i <= Len(w) THEN w[i] ELSE <<0, 0>>

PatrolCommand_write_to(c) ==
    IF ObjectsList_len(c.objects) > 127 THEN WritePanic
    ELSE Written(write_i8(ObjectsList_len(c.objects))
                   \o write_u8(Len(c.waypoints)) \o Zeros(1)
                   \o Flatten([i \in 1..10 |->
                                 write_32(waypoint_or_default(c.waypoints, i)[1])])
                   \o Flatten([i \in 1..10 |->
                                 write_32(waypoint_or_default(c.waypoints, i)[2])])
                   \o ObjectsList_write_to(c.objects))

FormFormationCommand_write_to(c) ==
    IF ObjectsList_len(c.objects) > 127 THEN WritePanic
    ELSE Written(write_i8(ObjectsList_len(c.objects))
                   \o write_u8(c.player_id) \o Zeros(1)
                   \o write_32(c.formation_type)
                   \o ObjectsList_write_to(c.objects))

AttackGroundCommand_write_to(c) ==
    IF ObjectsList_len(c.objects) > 127 THEN WritePanic
    ELSE Written(write_i8(ObjectsList_len(c.objects)) \o Zeros(2)
                   \o write_32(c.location[1]) \o write_32(c.location[2])
                   \o ObjectsList_write_to(c.objects))

SetGatherPointCommand_write_to(c) ==
    IF ObjectsList_len(c.buildings) > 255 THEN WritePanic
    ELSE Written(write_u8(ObjectsList_len(c.buildings)) \o Zeros(2)
                   \o write_32(target_bits(c.target_id))
                   \o write_u16(IF c.target_type_id = None THEN 65535
                                ELSE c.target_type_id[1])
                   \o Zeros(2)
                   \o (IF c.location = None THEN write_32(0) \o write_32(0)
                       ELSE write_32(c.location[1][1]) \o write_32(c.location[1][2]))
                   \o ObjectsList_write_to(c.buildings))

CreateCommand_write_to(c) ==
    Written(Zeros(1) \o write_u16(c.unit_type_id) \o write_u8(c.player_id) \o Zeros(1)
              \o write_32(c.location[1]) \o write_32(c.location[2])
              \o write_32(c.location[3]))

AddResourceCommand_write_to(c) ==
    Written(write_u8(c.player_id) \o write_u8(c.resource) \o Zeros(1)
              \o write_32(c.amount))

ResignCommand_write_to(c) ==
    Written(write_u8(c.player_id) \o write_u8(c.comm_player_id)
              \o write_u8(IF c.dropped THEN 1 ELSE 0))

UserPatchAICommand_write_to(c) ==
    Written(write_u8(c.ai_action) \o write_u8(c.player_id) \o Zeros(1)
              \o write_32s(c.params))

\* MakeCommand::write_to and ResearchCommand::write_to differ in the name of
\* the 16-bit identifier only.
make_write_to(building_id, player_id, id16, target_id) ==
    IF ~target_fits_i32(target_id) THEN WritePanic
    ELSE Written(Zeros(3) \o write_32(building_id) \o write_u8(player_id) \o Zeros(1)
                   \o write_u16(id16) \o write_32(target_bits(target_id)))

MakeCommand_write_to(c) ==
    make_write_to(c.building_id, c.player_id, c.unit_type_id, c.target_id)

ResearchCommand_write_to(c) ==
    make_write_to(c.building_id, c.player_id, c.tech_id, c.target_id)

CancelBuildCommand_write_to(c) ==
    Written(Zeros(3) \o write_32(c.building_id) \o write_32(c.player_id))

QueueCommand_write_to(c) ==
    Written(Zeros(3) \o write_32(c.building_id) \o write_u16(c.unit_type_id)
              \o write_u16(c.amount))

\* buy_sell_impl!: the write_to of SellResourceCommand and BuyResourceCommand.
buy_sell_write_to(c) ==
    Written(write_u8(c.player_id) \o write_u8(c.resource) \o write_i8(c.amount)
              \o write_32(c.market_id))

\* ViewLock::write_to; a PlayerID always fits the i32 it is written as.
ViewLock_write_to(c) ==
    Written(write_32(c.x) \o write_32(c.y) \o write_32(c.player))

-----------------------------------------------------------------------------
(* Frame codec.                                                            *)

\* The opcode byte of each command variant (the match in Command::read_from).
Opcode ==
    [Order |-> 0, Stop |-> 1, Work |-> 2, Move |-> 3, Create |-> 4,
     AddResource |-> 5, AIOrder |-> 10, Resign |-> 11, GroupWaypoint |-> 16,
     UnitAIState |-> 18, Guard |-> 19, Follow |-> 20, Patrol |-> 21,
     FormFormation |-> 23, UserPatchAI |-> 53, Make |-> 100, Research |-> 101,
     Build |-> 102, Game |-> 103, BuildWall |-> 105, CancelBuild |-> 106,
     AttackGround |-> 107, Repair |-> 110, Ungarrison |-> 111, Flare |-> 115,
     UnitOrder |-> 117, Queue |-> 119, SetGatherPoint |-> 120,
     SellResource |-> 122, BuyResource |-> 123, Unknown7F |-> 127,
     BackToWork |-> 128]

Variants == DOMAIN Opcode

KnownOpcodes == {Opcode[v] : v \in Variants}

\* The arm of the match for a known opcode byte; len is the declared length.
Dispatch(id, s, p, e, len) ==
    CASE id = 0 -> OrderCommand_read_from(s, p, e)
      [] id = 1 -> StopCommand_read_from(s, p, e)
      [] id = 2 -> WorkCommand_read_from(s, p, e)
      [] id = 3 -> MoveCommand_read_from(s, p, e)
      [] id = 4 -> CreateCommand_read_from(s, p, e)
      [] id = 5 -> AddResourceCommand_read_from(s, p, e)
      [] id = 10 -> AIOrderCommand_read_from(s, p, e)
      [] id = 11 -> ResignCommand_read_from(s, p, e)
      [] id = 16 -> GroupWaypointCommand_read_from(s, p, e)
      [] id = 18 -> UnitAIStateCommand_read_from(s, p, e)
      [] id = 19 -> GuardCommand_read_from(s, p, e)
      [] id = 20 -> FollowCommand_read_from(s, p, e)
      [] id = 21 -> PatrolCommand_read_from(s, p, e)
      [] id = 23 -> FormFormationCommand_read_from(s, p, e)
      [] id = 53 -> UserPatchAICommand_read_from(s, p, e, len)
      [] id = 100 -> MakeCommand_read_from(s, p, e)
      [] id = 101 -> ResearchCommand_read_from(s, p, e)
      [] id = 102 -> BuildCommand_read_from(s, p, e)
      [] id = 103 -> GameCommand_read_from(s, p, e)
      [] id = 105 -> BuildWallCommand_read_from(s, p, e)
      [] id = 106 -> CancelBuildCommand_read_from(s, p, e)
      [] id = 107 -> AttackGroundCommand_read_from(s, p, e)
      [] id = 110 -> RepairCommand_read_from(s, p, e)
      [] id = 111 -> UngarrisonCommand_read_from(s, p, e)
      [] id = 115 -> FlareCommand_read_from(s, p, e)
      [] id = 117 -> UnitOrderCommand_read_from(s, p, e)
      [] id = 119 -> QueueCommand_read_from(s, p, e)
      [] id = 120 -> SetGatherPointCommand_read_from(s, p, e)
      [] id = 122 -> buy_sell_read_from("SellResource", s, p, e)
      [] id = 123 -> buy_sell_read_from("BuyResource", s, p, e)
      [] id = 127 -> Unknown7FCommand_read_from(s, p, e)
      [] id = 128 -> BackToWorkCommand_read_from(s, p, e)

\* The end of the region input.take(len) can read, for a frame whose length
\* prefix starts at p: the declared end, or the end of the stream if that
\* comes first.  len is a u32, so a negative carrier is a length >= 2^31.
TakeEnd(s, p, len) ==
    IF len < 0 \/ len > Len(s) - (p + 4) THEN Len(s) ELSE p + 4 + len

\* Command::read_from without the io::copy drain: the world time is read
\* where the variant stopped.
Command_read_from_nodrain(s, p) ==
    IF ~Avail(p, Len(s), 4) THEN Err(Len(s))
    ELSE LET len == read_32(s, p)
             e == TakeEnd(s, p, len)
         IN  IF ~Avail(p + 4, e, 1) THEN Err(e)
             ELSE IF read_u8(s, p + 4) \notin KnownOpcodes THEN Panic(p + 5)
             ELSE LET command == Dispatch(read_u8(s, p + 4), s, p + 5, e, len)
                  IN  IF command.st = "Panic" THEN command
                      ELSE IF ~Avail(command.pos, Len(s), 4) THEN Err(Len(s))
                      ELSE [command EXCEPT !.pos = command.pos + 4]

\* Command::read_from without take(len): the variant reads the outer stream.
Command_read_from_untaken(s, p) ==
    IF ~Avail(p, Len(s), 4) THEN Err(Len(s))
    ELSE LET len == read_32(s, p)
             e == TakeEnd(s, p, len)
         IN  IF ~Avail(p + 4, Len(s), 1) THEN Err(Len(s))
             ELSE IF read_u8(s, p + 4) \notin KnownOpcodes THEN Panic(p + 5)
             ELSE LET command == Dispatch(read_u8(s, p + 4), s, p + 5, Len(s), len)
                      w == IF command.pos > e THEN command.pos ELSE e
                  IN  IF command.st = "Panic" THEN command
                      ELSE IF ~Avail(w, Len(s), 4) THEN Err(Len(s))
                      ELSE [command EXCEPT !.pos = w + 4]

\* Command::read_from returning a variant's error at once: the region is
\* not drained and the world time is not read.
Command_read_from_early(s, p) ==
    IF ~Avail(p, Len(s), 4) THEN Err(Len(s))
    ELSE LET len == read_32(s, p)
             e == TakeEnd(s, p, len)
         IN  IF ~Avail(p + 4, e, 1) THEN Err(e)
             ELSE IF read_u8(s, p + 4) \notin KnownOpcodes THEN Panic(p + 5)
             ELSE LET command == Dispatch(read_u8(s, p + 4), s, p + 5, e, len)
                  IN  IF command.st # "Ok" THEN command
                      ELSE IF ~Avail(e, Len(s), 4) THEN Err(Len(s))
                      ELSE [command EXCEPT !.pos = e + 4]

\* Command::read_from on the stream s at cursor p.
Command_read_from(s, p) ==
    IF ~Avail(p, Len(s), 4) THEN Err(Len(s))
    ELSE LET len == read_32(s, p)
             e == TakeEnd(s, p, len)
         IN  IF ~Avail(p + 4, e, 1) THEN Err(e)
             ELSE IF read_u8(s, p + 4) \notin KnownOpcodes THEN Panic(p + 5)
             ELSE LET command == Dispatch(read_u8(s, p + 4), s, p + 5, e, len)
                  IN  IF command.st = "Panic" THEN command
                      \* io::copy drains the region, then the world time is read
                      \* from the outer stream.
                      ELSE IF ~Avail(e, Len(s), 4) THEN Err(Len(s))
                      ELSE [command EXCEPT !.pos = e + 4]

-----------------------------------------------------------------------------
(* Enumerated inputs.                                                      *)

\* Object identifiers on the wire: small ones, the largest that fits i32,
\* and two with the top bit set (0x80000000 and 0xFFFFFFFF).
IdVals == {10, 11, 12, 2147483647, -2147483647 - 1, -1}

\* Counts handed to ObjectsList::read_from.
CountVals == {-1, 0, 1, 2, 3, 127, 254, 255, 256, 2147483647}

IdSeqs(n) == UNION {[1..k -> IdVals] : k \in 0..n}

IdBytes(ids) ==
    [i \in 1..(4 * Len(ids)) |-> write_32(ids[(i - 1) \div 4 + 1])[((i - 1) % 4) + 1]]

\* The streams of identifiers, whole or cut short by 1..3 bytes.
Prefixes(s, cut) == {SubSeq(s, 1, Len(s) - c) : c \in {c \in cut : c <= Len(s)}}

ListStreams == UNION {Prefixes(IdBytes(ids), 0..3) : ids \in IdSeqs(MaxIds + 1)}

\* Wire layout of each variant's fixed part, for building inputs: its size,
\* the offset and width of the selected-count field (width 0: no object
\* list), and the bytes pinned to values its decoder accepts (guard values,
\* a known sub-opcode, a player that fits, a waypoint count).
Layout ==
    [Order |-> [size |-> 19, at |-> 7, width |-> 4, pin |-> <<>>],
     Stop |-> [size |-> 1, at |-> 0, width |-> 1, pin |-> <<>>],
     Work |-> [size |-> 19, at |-> 7, width |-> 1, pin |-> <<>>],
     Move |-> [size |-> 19, at |-> 7, width |-> 1, pin |-> <<>>],
     Create |-> [size |-> 17, at |-> 0, width |-> 0, pin |-> <<>>],
     AddResource |-> [size |-> 7, at |-> 0, width |-> 0, pin |-> <<>>],
     AIOrder |-> [size |-> 39, at |-> 0, width |-> 1, pin |-> <<>>],
     Resign |-> [size |-> 3, at |-> 0, width |-> 0, pin |-> <<>>],
     GroupWaypoint |-> [size |-> 4, at |-> 1, width |-> 1, pin |-> <<>>],
     UnitAIState |-> [size |-> 2, at |-> 0, width |-> 1, pin |-> <<>>],
     Guard |-> [size |-> 7, at |-> 0, width |-> 1, pin |-> <<>>],
     Follow |-> [size |-> 7, at |-> 0, width |-> 1, pin |-> <<>>],
     Patrol |-> [size |-> 83, at |-> 0, width |-> 1, pin |-> <<<<1, 2>>>>],
     FormFormation |-> [size |-> 7, at |-> 0, width |-> 1, pin |-> <<>>],
     UserPatchAI |-> [size |-> 7, at |-> 0, width |-> 0, pin |-> <<>>],
     Make |-> [size |-> 15, at |-> 0, width |-> 0, pin |-> <<>>],
     Research |-> [size |-> 15, at |-> 0, width |-> 0, pin |-> <<>>],
     Build |-> [size |-> 23, at |-> 0, width |-> 1, pin |-> <<>>],
     Game |-> [size |-> 15, at |-> 0, width |-> 0,
               pin |-> <<<<0, 11>>, <<1, 1>>, <<2, 0>>, <<14, 0>>>>],
     BuildWall |-> [size |-> 15, at |-> 0, width |-> 1,
                    pin |-> <<<<11, 255>>, <<12, 255>>, <<13, 255>>, <<14, 255>>>>],
     CancelBuild |-> [size |-> 11, at |-> 0, width |-> 0,
                      pin |-> <<<<8, 0>>, <<9, 0>>, <<10, 0>>>>],
     AttackGround |-> [size |-> 11, at |-> 0, width |-> 1, pin |-> <<>>],
     Repair |-> [size |-> 7, at |-> 0, width |-> 1, pin |-> <<>>],
     Ungarrison |-> [size |-> 19, at |-> 0, width |-> 1, pin |-> <<>>],
     Flare |-> [size |-> 31, at |-> 0, width |-> 0,
                pin |-> <<<<3, 255>>, <<4, 255>>, <<5, 255>>, <<6, 255>>>>],
     UnitOrder |-> [size |-> 23, at |-> 0, width |-> 1, pin |-> <<>>],
     Queue |-> [size |-> 11, at |-> 0, width |-> 0, pin |-> <<>>],
     SetGatherPoint |-> [size |-> 19, at |-> 0, width |-> 1, pin |-> <<>>],
     SellResource |-> [size |-> 7, at |-> 0, width |-> 0, pin |-> <<>>],
     BuyResource |-> [size |-> 7, at |-> 0, width |-> 0, pin |-> <<>>],
     Unknown7F |-> [size |-> 11, at |-> 0, width |-> 0, pin |-> <<>>],
     BackToWork |-> [size |-> 7, at |-> 0, width |-> 0, pin |-> <<>>]]

\* The variants that carry an object list, and those among them whose
\* count field is one byte wide.
ListVariants == {v \in Variants : Layout[v].width > 0}

\* The fixed part of variant v: every byte is fill, except the pinned bytes
\* and the count field, which holds the bytes cnt.
FixedPart(v, fill, cnt) ==
    LET L == Layout[v]
    IN  [i \in 1..L.size |->
           IF L.width > 0 /\ i - 1 >= L.at /\ i - 1 < L.at + L.width
           THEN cnt[i - L.at]
           ELSE IF \E k \in 1..Len(L.pin) : L.pin[k][1] = i - 1
           THEN L.pin[CHOOSE k \in 1..Len(L.pin) : L.pin[k][1] = i - 1][2]
           ELSE fill]

\* Filler bytes of the fixed parts.
FillVals == {0, 1, 255}

\* Count fields on the wire: one-byte fields, and bit patterns of the
\* 32-bit field of Order (0xFF, 0x100, 0x7FFFFFFF, 0x80000000, 0xFFFFFFFF).
CountBytes == {<<c>> : c \in (0..MaxIds) \cup {127, 128, 254, 255}}

CountWords ==
    {write_32(c) : c \in (0..MaxIds) \cup {255, 256, 2147483647, -2147483647 - 1, -1}}

CountFields(v) ==
    IF Layout[v].width = 4 THEN CountWords
    ELSE IF Layout[v].width = 1 THEN CountBytes
    ELSE {<<>>}

\* Identifier bytes that follow a fixed part.
TailIds == UNION {[1..k -> {10, 11, -1}] : k \in 0..MaxIds}

\* n consecutive identifiers 10, 11, ...
RunOfIds(n) == [i \in 1..n |-> 9 + i]

\* The longest list a signed count byte can announce.
MaxSignedCount == 127

\* Payloads of variant v (the bytes after the opcode).
Payloads(v) ==
    {FixedPart(v, fill, cnt) \o IdBytes(ids) :
        fill \in FillVals, cnt \in CountFields(v), ids \in TailIds}
    \cup (IF v \in {"Stop", "Move", "AIOrder"}
          THEN {FixedPart(v, 0, <<n>>) \o IdBytes(RunOfIds(n)) :
                  n \in {MaxIds + 1, MaxSignedCount}}
          ELSE {})

\* Count fields around the largest counts, as bytes or as the 32-bit field
\* of Order.
LongCounts(v) ==
    {IF Layout[v].width = 4 THEN <<c % 256, c \div 256, 0, 0>> ELSE <<c>> :
        c \in {c \in {MaxSignedCount, MaxSignedCount + 1, MarkerCount - 1,
                      MarkerCount, MarkerCount + 1} :
                 Layout[v].width = 4 \/ c <= 255}}

\* Payloads of a list-carrying variant v with one of those counts and more
\* identifiers on the wire than any count byte can announce.
LongListPayloads(v) ==
    IF Layout[v].width = 0 THEN {}
    ELSE {FixedPart(v, 0, cnt) \o IdBytes(RunOfIds(MarkerCount)) : cnt \in LongCounts(v)}

\* The actions of the stream that are not commands.
OtherActions == {"ViewLock", "Sync", "Chat"}

\* Inputs of ViewLock::read_from: two floats and a 32-bit player.
ViewLockInputs ==
    {IdBytes(<<F32One, f, player>>) :
        f \in {0, F32MinusOne}, player \in {0, 1, 8, 255, 256, 2147483647, -1}}

\* Inputs of Sync::read_from: four words, with or without a block of
\* SyncBlock bytes after them, and two trailing words.
SyncInputs ==
    {IdBytes(<<z, 21, cs, ac>>) \o blk \o IdBytes(<<z, nwt>>) :
        z \in {0, 9}, cs \in {22, -1}, ac \in {0, 23, -1},
        blk \in {<<>>, [i \in 1..SyncBlock |-> 100 + (i % 100)]},
        nwt \in {24, 25}}

\* Inputs of Chat::read_from: the marker, a length and the message bytes.
ChatInputs ==
    {write_32(marker) \o write_32(len) \o msg :
        marker \in {-1, 0, 1, -2}, len \in {-1, 0, 1, 2, 3},
        msg \in {<<>>, <<104, 105>>, <<104, 0, 105>>}}

\* The nested record of a Game command: sub-opcode, two 16-bit slots, two
\* bytes of padding, a float slot and a 32-bit slot.
GameBytes(sub, var1, var2, var3, var4) ==
    <<sub>> \o write_u16(var1) \o write_u16(var2) \o Zeros(2)
      \o write_32(var3) \o write_32(var4)

\* Sub-opcode bytes tried: the low range that holds every known one, and
\* two far from it.
GameSubSamples == (0..17) \cup {103, 255}

GamePayloads ==
    {GameBytes(sub, var1, var2, F32One, var4) :
        sub \in GameSubSamples, var1 \in {0, 1, 255, 256, -1}, var2 \in {0, 5, -1},
        var4 \in {7, 2147483647, -2147483647 - 1, -1}}

\* UserPatchAI payloads with 0..5 parameters.
UserPatchAIPayloads ==
    {<<13, 1, 0>> \o IdBytes(params) :
        params \in {[i \in 1..k |-> f + i] : k \in 0..5, f \in {20, -4}}}

\* BuildWall payloads whose guard field is not 0xFFFFFFFF.
BuildWallUnguarded ==
    {[FixedPart("BuildWall", 0, <<c>>) EXCEPT ![k] = g] :
        c \in {0, 255}, k \in 12..15, g \in {0, 254}}

\* Patrol payloads with waypoint counts up to 255 over a buffer whose 20
\* values all differ.
PatrolPayloads ==
    {<<cnt, k, fill>> \o IdBytes([i \in 1..10 |-> i])
       \o IdBytes([i \in 1..10 |-> 100 + i]) \o IdBytes(RunOfIds(n)) :
        cnt \in {0, 1}, k \in {0, 1, 2, 10, 11, 255}, fill \in {0, 255}, n \in 0..1}

\* The variants whose optional 32-bit target id has an encoder, and the
\* offset of that field in the payload.
TargetAt ==
    [Order |-> 3, Work |-> 3, Move |-> 3, Guard |-> 3, Follow |-> 3, Repair |-> 3,
     Make |-> 11, Research |-> 11, AIOrder |-> 11, SetGatherPoint |-> 3]

\* Payloads of those variants with no objects and a target id around 2^31
\* (0x7FFFFFFF, 0x80000000, 0xFFFFFFFE).
TargetPayloads(v) ==
    IF v \notin DOMAIN TargetAt THEN {}
    ELSE {[i \in 1..Layout[v].size |->
             IF i > TargetAt[v] /\ i <= TargetAt[v] + 4
             THEN write_32(t)[i - TargetAt[v]]
             ELSE FixedPart(v, 0, Zeros(Layout[v].width))[i]] :
            t \in {2147483647, -2147483647 - 1, -2}}

\* The inputs of the decoder of v.
Inputs(v) ==
    CASE v = "ViewLock" -> ViewLockInputs
      [] v = "Sync" -> SyncInputs
      [] v = "Chat" -> ChatInputs
      [] v = "BuildWall" -> Payloads(v) \cup BuildWallUnguarded \cup LongListPayloads(v)
      [] v = "Game" -> Payloads(v) \cup GamePayloads
      [] v = "UserPatchAI" -> Payloads(v) \cup UserPatchAIPayloads
      [] v = "Patrol" -> Payloads(v) \cup PatrolPayloads \cup LongListPayloads(v)
      [] OTHER -> Payloads(v) \cup LongListPayloads(v) \cup TargetPayloads(v)

-----------------------------------------------------------------------------
(* Enumerated command values, for the encoders.                            *)

PlayerVals == {1, 200}

TargetVals == {None, Some(5), Some(-2147483647 - 1)}

LocationVals == {<<0, 0>>, <<F32One, F32MinusOne>>}

\* The longest list a signed count byte cannot announce.
OverSignedCount == MaxSignedCount + 1

ObjectLists ==
    {List(l) : l \in UNION {[1..k -> {10, 11}] : k \in 0..MaxIds}}
    \cup {SameAsLast, List(<<-1>>),
          List(RunOfIds(MaxSignedCount)), List(RunOfIds(OverSignedCount))}

WaypointVals ==
    {<<>>, <<<<F32One, 0>>>>, <<<<F32One, 0>>, <<0, F32MinusOne>>>>,
     [i \in 1..10 |-> <<F32One, F32MinusOne>>]}

Values(v) ==
    CASE v = "Order" ->
           [type : {v}, player_id : PlayerVals, target_id : TargetVals,
            location : LocationVals, objects : ObjectLists]
      [] v = "Stop" -> [type : {v}, objects : ObjectLists]
      [] v = "Work" ->
           [type : {v}, target_id : TargetVals, location : LocationVals,
            objects : ObjectLists]
      [] v = "Move" ->
           [type : {v}, player_id : PlayerVals, target_id : TargetVals,
            location : LocationVals, objects : ObjectLists]
      [] v = "AIOrder" ->
           [type : {v}, player_id : PlayerVals, issuer : {2}, order_type : {700},
            order_priority : {-1, 3}, target_id : TargetVals,
            target_player_id : {None, Some(1), Some(2)},
            target_location : {<<F32One, 0, F32MinusOne>>}, range : {F32One},
            immediate : BOOLEAN, add_to_front : {FALSE}, objects : ObjectLists]
      [] v = "GroupWaypoint" ->
           [type : {v}, player_id : PlayerVals, location : {<<3, 250>>},
            objects : ObjectLists]
      [] v = "UnitAIState" -> [type : {v}, state : {-1, 2}, objects : ObjectLists]
      [] v = "Guard" -> [type : {v}, target_id : TargetVals, objects : ObjectLists]
      [] v = "Follow" -> [type : {v}, target_id : TargetVals, objects : ObjectLists]
      [] v = "Repair" -> [type : {v}, target_id : TargetVals, repairers : ObjectLists]
      [] v = "Patrol" -> [type : {v}, waypoints : WaypointVals, objects : ObjectLists]
      [] v = "FormFormation" ->
           [type : {v}, player_id : PlayerVals, formation_type : {-1, 2},
            objects : ObjectLists]
      [] v = "AttackGround" ->
           [type : {v}, location : LocationVals, objects : ObjectLists]
      [] v = "SetGatherPoint" ->
           [type : {v}, target_id : TargetVals, target_type_id : {None, Some(7)},
            location : {None, Some(<<F32One, 0>>)}, buildings : ObjectLists]
      [] v = "Create" ->
           [type : {v}, unit_type_id : {83}, player_id : PlayerVals,
            location : {<<F32One, 0, F32MinusOne>>}]
      [] v = "AddResource" ->
           [type : {v}, player_id : PlayerVals, resource : {0, 3}, amount : {F32One}]
      [] v = "Resign" ->
           [type : {v}, player_id : PlayerVals, comm_player_id : {1}, dropped : BOOLEAN]
      [] v = "UserPatchAI" ->
           [type : {v}, ai_action : {13}, player_id : PlayerVals,
            params : UNION {[1..k -> {7, -1}] : k \in 0..4}]
      [] v = "Make" ->
           [type : {v}, building_id : {12, -1}, player_id : PlayerVals,
            unit_type_id : {83}, target_id : TargetVals]
      [] v = "Research" ->
           [type : {v}, building_id : {12, -1}, player_id : PlayerVals,
            tech_id : {101}, target_id : TargetVals]
      [] v = "CancelBuild" -> [type : {v}, building_id : {12, -1}, player_id : PlayerVals]
      [] v = "Queue" ->
           [type : {v}, building_id : {12, -1}, unit_type_id : {83}, amount : {1, 65535}]
      [] v \in {"SellResource", "BuyResource"} ->
           [type : {v}, player_id : PlayerVals, resource : {0, 3}, amount : {-1, 5},
            market_id : {12, -1}]
      [] v = "ViewLock" ->
           [type : {v}, x : {0, F32One}, y : {F32MinusOne}, player : PlayerVals]

\* The list-carrying variants that have a write_to.
EncodableListVariants ==
    {"Order", "Stop", "Work", "Move", "AIOrder", "GroupWaypoint", "UnitAIState",
     "Guard", "Follow", "Repair", "Patrol", "FormFormation", "AttackGround",
     "SetGatherPoint"}

\* The variants that have a write_to.
EncodableVariants ==
    EncodableListVariants
    \cup {"Create", "AddResource", "Resign", "UserPatchAI", "Make", "Research",
          "CancelBuild", "Queue", "SellResource", "BuyResource"}

\* Everything that has a write_to: those variants and the ViewLock action.
Encodable == EncodableVariants \cup {"ViewLock"}

-----------------------------------------------------------------------------
(* Specification of the object-list codec on its own.                      *)

InitObjectsList ==
    /\ input \in ListStreams
    /\ pos = 0
    /\ arg = 0
    /\ x = NoVal
    /\ output = Written(<<>>)
    /\ result = Ok(NoVal, 0)
    /\ log = <<>>
    /\ pc = "start"

\* ObjectsList::read_from(input, count)
ReadObjectsList ==
    /\ pc = "start"
    /\ \E count \in CountVals :
         /\ arg' = count
         /\ result' = ObjectsList_read_from(input, pos, Len(input), count)
    /\ pos' = result'.pos
    /\ pc' = "read"
    /\ UNCHANGED <<input, x, output, log>>

NextObjectsList == ReadObjectsList

SpecObjectsList == InitObjectsList /\ [][NextObjectsList]_vars

-----------------------------------------------------------------------------
(* Specification of the variant codecs.  A run either decodes a payload    *)
(* and writes the decoded command back, or encodes a command value and     *)
(* decodes the bytes written.                                              *)

InitVariant ==
    /\ arg \in Variants \cup OtherActions
    /\ \/ /\ pc = "decode"
          /\ input \in UNION {Prefixes(b, {0, 1}) : b \in Inputs(arg)}
          /\ x = NoVal
       \/ /\ pc = "encode"
          /\ arg \in Encodable
          /\ x \in Values(arg)
          /\ input = <<>>
    /\ pos = 0
    /\ output = Written(<<>>)
    /\ result = Ok(NoVal, 0)
    /\ log = <<>>

\* A call of variant v's read_from on the whole of input, with outcome r.
DoRead(v, r) ==
    /\ arg = v
    /\ \/ pc = "decode" /\ pc' = "decoded"
       \/ pc = "encoded" /\ output.st = "Ok" /\ pc' = "redecoded"
    /\ result' = r
    /\ pos' = r.pos
    /\ UNCHANGED <<input, arg, x, output, log>>

\* The write_to of variant v, applied to the command c.
write_to(v, c) ==
    CASE v = "Order" -> OrderCommand_write_to(c)
      [] v = "Stop" -> StopCommand_write_to(c)
      [] v = "Work" -> WorkCommand_write_to(c)
      [] v = "Move" -> MoveCommand_write_to(c)
      [] v = "AIOrder" -> AIOrderCommand_write_to(c)
      [] v = "GroupWaypoint" -> GroupWaypointCommand_write_to(c)
      [] v = "UnitAIState" -> UnitAIStateCommand_write_to(c)
      [] v = "Guard" -> GuardCommand_write_to(c)
      [] v = "Follow" -> FollowCommand_write_to(c)
      [] v = "Repair" -> RepairCommand_write_to(c)
      [] v = "Patrol" -> PatrolCommand_write_to(c)
      [] v = "FormFormation" -> FormFormationCommand_write_to(c)
      [] v = "AttackGround" -> AttackGroundCommand_write_to(c)
      [] v = "SetGatherPoint" -> SetGatherPointCommand_write_to(c)
      [] v = "Create" -> CreateCommand_write_to(c)
      [] v = "AddResource" -> AddResourceCommand_write_to(c)
      [] v = "Resign" -> ResignCommand_write_to(c)
      [] v = "UserPatchAI" -> UserPatchAICommand_write_to(c)
      [] v = "Make" -> MakeCommand_write_to(c)
      [] v = "Research" -> ResearchCommand_write_to(c)
      [] v = "CancelBuild" -> CancelBuildCommand_write_to(c)
      [] v = "Queue" -> QueueCommand_write_to(c)
      [] v \in {"SellResource", "BuyResource"} -> buy_sell_write_to(c)
      [] v = "ViewLock" -> ViewLock_write_to(c)

\* A call of variant v's write_to: on the value x, the bytes written
\* becoming the next input, or on the command just decoded.
DoWrite(v) ==
    /\ arg = v
    /\ \/ /\ pc = "encode"
          /\ output' = write_to(v, x)
          /\ input' = output'.bytes
          /\ pc' = "encoded"
       \/ /\ pc = "decoded"
          /\ result.st = "Ok"
          /\ output' = write_to(v, result.val)
          /\ input' = input
          /\ pc' = "reencoded"
    /\ UNCHANGED <<pos, arg, x, result, log>>

Read_Order == DoRead("Order", OrderCommand_read_from(input, 0, Len(input)))
Read_Stop == DoRead("Stop", StopCommand_read_from(input, 0, Len(input)))
Read_Work == DoRead("Work", WorkCommand_read_from(input, 0, Len(input)))
Read_Move == DoRead("Move", MoveCommand_read_from(input, 0, Len(input)))
Read_Create == DoRead("Create", CreateCommand_read_from(input, 0, Len(input)))
Read_AddResource ==
    DoRead("AddResource", AddResourceCommand_read_from(input, 0, Len(input)))
Read_AIOrder == DoRead("AIOrder", AIOrderCommand_read_from(input, 0, Len(input)))
Read_Resign == DoRead("Resign", ResignCommand_read_from(input, 0, Len(input)))
Read_GroupWaypoint ==
    DoRead("GroupWaypoint", GroupWaypointCommand_read_from(input, 0, Len(input)))
Read_UnitAIState ==
    DoRead("UnitAIState", UnitAIStateCommand_read_from(input, 0, Len(input)))
Read_Guard == DoRead("Guard", GuardCommand_read_from(input, 0, Len(input)))
Read_Follow == DoRead("Follow", FollowCommand_read_from(input, 0, Len(input)))
Read_Patrol == DoRead("Patrol", PatrolCommand_read_from(input, 0, Len(input)))
Read_FormFormation ==
    DoRead("FormFormation", FormFormationCommand_read_from(input, 0, Len(input)))
\* The size argument is the declared length of a frame that holds exactly
\* the opcode and this payload.
Read_UserPatchAI ==
    DoRead("UserPatchAI",
           UserPatchAICommand_read_from(input, 0, Len(input), Len(input) + 1))
Read_Make == DoRead("Make", MakeCommand_read_from(input, 0, Len(input)))
Read_Research == DoRead("Research", ResearchCommand_read_from(input, 0, Len(input)))
Read_Build == DoRead("Build", BuildCommand_read_from(input, 0, Len(input)))
Read_Game == DoRead("Game", GameCommand_read_from(input, 0, Len(input)))
Read_BuildWall == DoRead("BuildWall", BuildWallCommand_read_from(input, 0, Len(input)))
Read_CancelBuild ==
    DoRead("CancelBuild", CancelBuildCommand_read_from(input, 0, Len(input)))
Read_AttackGround ==
    DoRead("AttackGround", AttackGroundCommand_read_from(input, 0, Len(input)))
Read_Repair == DoRead("Repair", RepairCommand_read_from(input, 0, Len(input)))
Read_Ungarrison ==
    DoRead("Ungarrison", UngarrisonCommand_read_from(input, 0, Len(input)))
Read_Flare == DoRead("Flare", FlareCommand_read_from(input, 0, Len(input)))
Read_UnitOrder == DoRead("UnitOrder", UnitOrderCommand_read_from(input, 0, Len(input)))
Read_Queue == DoRead("Queue", QueueCommand_read_from(input, 0, Len(input)))
Read_SetGatherPoint ==
    DoRead("SetGatherPoint", SetGatherPointCommand_read_from(input, 0, Len(input)))
Read_SellResource ==
    DoRead("SellResource", buy_sell_read_from("SellResource", input, 0, Len(input)))
Read_BuyResource ==
    DoRead("BuyResource", buy_sell_read_from("BuyResource", input, 0, Len(input)))
Read_Unknown7F ==
    DoRead("Unknown7F", Unknown7FCommand_read_from(input, 0, Len(input)))
Read_BackToWork ==
    DoRead("BackToWork", BackToWorkCommand_read_from(input, 0, Len(input)))

Read_ViewLock == DoRead("ViewLock", ViewLock_read_from(input, 0, Len(input)))
Read_Sync == DoRead("Sync", Sync_read_from(input, 0, Len(input)))
Read_Chat == DoRead("Chat", Chat_read_from(input, 0, Len(input)))

Write_Order == DoWrite("Order")
Write_Stop == DoWrite("Stop")
Write_Work == DoWrite("Work")
Write_Move == DoWrite("Move")
Write_AIOrder == DoWrite("AIOrder")
Write_GroupWaypoint == DoWrite("GroupWaypoint")
Write_UnitAIState == DoWrite("UnitAIState")
Write_Guard == DoWrite("Guard")
Write_Follow == DoWrite("Follow")
Write_Repair == DoWrite("Repair")
Write_Patrol == DoWrite("Patrol")
Write_FormFormation == DoWrite("FormFormation")
Write_AttackGround == DoWrite("AttackGround")
Write_SetGatherPoint == DoWrite("SetGatherPoint")
Write_Create == DoWrite("Create")
Write_AddResource == DoWrite("AddResource")
Write_Resign == DoWrite("Resign")
Write_UserPatchAI == DoWrite("UserPatchAI")
Write_Make == DoWrite("Make")
Write_Research == DoWrite("Research")
Write_CancelBuild == DoWrite("CancelBuild")
Write_Queue == DoWrite("Queue")
Write_SellResource == DoWrite("SellResource")
Write_BuyResource == DoWrite("BuyResource")
Write_ViewLock == DoWrite("ViewLock")

NextVariant ==
    \/ Read_Order \/ Read_Stop \/ Read_Work \/ Read_Move \/ Read_Create
    \/ Read_AddResource \/ Read_AIOrder \/ Read_Resign \/ Read_GroupWaypoint
    \/ Read_UnitAIState \/ Read_Guard \/ Read_Follow \/ Read_Patrol
    \/ Read_FormFormation \/ Read_UserPatchAI \/ Read_Make \/ Read_Research
    \/ Read_Build \/ Read_Game \/ Read_BuildWall \/ Read_CancelBuild
    \/ Read_AttackGround \/ Read_Repair \/ Read_Ungarrison \/ Read_Flare
    \/ Read_UnitOrder \/ Read_Queue \/ Read_SetGatherPoint \/ Read_SellResource
    \/ Read_BuyResource \/ Read_Unknown7F \/ Read_BackToWork
    \/ Read_ViewLock \/ Read_Sync \/ Read_Chat
    \/ Write_Order \/ Write_Stop \/ Write_Work \/ Write_Move \/ Write_AIOrder
    \/ Write_GroupWaypoint \/ Write_UnitAIState \/ Write_Guard \/ Write_Follow
    \/ Write_Repair \/ Write_Patrol \/ Write_FormFormation \/ Write_AttackGround
    \/ Write_SetGatherPoint \/ Write_Create \/ Write_AddResource \/ Write_Resign
    \/ Write_UserPatchAI \/ Write_Make \/ Write_Research \/ Write_CancelBuild
    \/ Write_Queue \/ Write_SellResource \/ Write_BuyResource \/ Write_ViewLock

SpecVariant == InitVariant /\ [][NextVariant]_vars

-----------------------------------------------------------------------------
(* Specification of the frame codec.  The stream is a sequence of frames;  *)
(* x keeps them apart, input is their concatenation, and the caller reads  *)
(* one command after another while bytes remain.                           *)

\* The world time that trails every frame.  Its bytes read as an object
\* identifier if a decoder should run into them.
WorldTime == 10

\* A frame: the declared length, the body it counts, the world time.
Frame(body) == write_32(Len(body)) \o body \o write_32(WorldTime)

\* A payload cut short by one byte, whole, or followed by two bytes of
\* padding the variant does not read.
Fitted(payload) ==
    {payload, payload \o <<238, 238>>}
    \cup (IF payload = <<>> THEN {} ELSE {SubSeq(payload, 1, Len(payload) - 1)})

\* Count fields of the frames: 0..MaxIds and the byte 0xFF.
FrameCounts(v) ==
    IF Layout[v].width = 0 THEN {<<>>}
    ELSE {c \in CountFields(v) : c[1] \in (0..MaxIds) \cup {255}}

FramePayloads(v) ==
    {FixedPart(v, fill, cnt) \o IdBytes(RunOfIds(n)) :
        fill \in {0, 255}, cnt \in FrameCounts(v), n \in 0..MaxIds}

FramesOf(v) ==
    UNION {{Frame(<<Opcode[v]>> \o b) : b \in Fitted(payload)} :
             payload \in FramePayloads(v)}

\* Frames of every variant, frames with an opcode outside the table, a frame
\* of length 0 and a frame that declares 0xFFFFFFFF bytes.
Frames ==
    UNION {FramesOf(v) : v \in Variants}
    \cup {Frame(<<6, 0, 0>>), Frame(<<255>>), Frame(<<>>),
          write_32(-1) \o <<1, 0>> \o write_32(WorldTime)}

\* The frames that follow the first one.
ProbeFrames ==
    {Frame(<<Opcode["Stop"]>> \o <<2>> \o IdBytes(<<10, 11>>)),
     Frame(<<Opcode["Resign"]>> \o <<1, 1, 0>>),
     Frame(<<Opcode["Guard"]>> \o FixedPart("Guard", 255, <<255>>)),
     Frame(<<Opcode["GroupWaypoint"]>> \o <<1, 1, 3, 4>> \o IdBytes(<<12>>)
             \o <<238>>)}

FrameSeqs ==
    UNION {{<<f>> \o rest : f \in Frames, rest \in [1..k -> ProbeFrames]} :
             k \in 0..(MaxFrames - 1)}

Init ==
    /\ x \in FrameSeqs
    /\ input = Flatten(x)
    /\ pos = 0
    /\ arg = 0
    /\ output = Written(<<>>)
    /\ result = Ok(NoVal, 0)
    /\ log = <<>>
    /\ pc = "run"

\* The caller reads the next action of the stream: Command::read_from(input).
\* An unwinding decoder ends the run.
ReadCommand ==
    /\ pc = "run"
    /\ pos < Len(input)
    /\ arg' = pos
    /\ result' = Command_read_from(input, pos)
    /\ pos' = result'.pos
    /\ log' = Append(log, [start |-> pos, r |-> result'])
    /\ pc' = IF result'.st = "Panic" THEN "unwound" ELSE "run"
    /\ UNCHANGED <<input, x, output>>

Next == ReadCommand

Spec == Init /\ [][Next]_vars

-----------------------------------------------------------------------------
(* UnitAction::read_list_from (unit_action.rs), step by step.  log is the  *)
(* stack of the read_from_inner calls whose sub_actions are being read,    *)
(* output the list the innermost read_list_from has built so far, arg the  *)
(* save version in hundredths and x the actions the input was built from.  *)

\* genie_support::read_opt_u16: 0xFFFF is None.
read_opt_u16(s, p) == IF read_u16(s, p) = 65535 THEN None ELSE Some(read_u16(s, p))

\* Width of the state field: a byte when version <= 11.76, a u32 after.
StateWidth(version) == IF version <= 1176 THEN 1 ELSE 4

\* The bytes read_from_inner reads before it reads the sub_actions.
HeadSize(version) == StateWidth(version) + 36

\* The action types ActionType::read_from has an arm for.
SupportedTypes == {1, 3, 4, 9, 10, 12, 13, 21, 107}

\* The bytes of the parameters of each supported action type.
ParamSize(t) == CASE t \in {1, 3, 21} -> 4 [] t = 9 -> 35 [] OTHER -> 0

ActionAttack_read_from(s, p) ==
    [kind |-> "Attack",
     range |-> read_32(s, p),
     min_range |-> read_32(s, p + 4),
     missile_id |-> read_u16(s, p + 8),
     frame_delay |-> read_u16(s, p + 10),
     need_to_attack |-> read_u16(s, p + 12),
     was_same_owner |-> read_u16(s, p + 14),
     indirect_fire_flag |-> read_u8(s, p + 16),
     move_sprite_id |-> read_opt_u16(s, p + 17),
     fight_sprite_id |-> read_opt_u16(s, p + 19),
     wait_sprite_id |-> read_opt_u16(s, p + 21),
     last_target_position |->
         <<read_32(s, p + 23), read_32(s, p + 27), read_32(s, p + 31)>>]

\* ActionType::read_from: the catch-all arm is unimplemented!().
ActionType_read_from(s, p, e, action_type) ==
    IF action_type \notin SupportedTypes THEN Panic(p)
    ELSE IF ~Avail(p, e, ParamSize(action_type)) THEN Err(e)
    ELSE Ok(CASE action_type = 1 -> [kind |-> "MoveTo", range |-> read_32(s, p)]
              [] action_type = 3 -> [kind |-> "Enter", first_time |-> read_32(s, p)]
              [] action_type = 4 -> [kind |-> "Explore"]
              [] action_type = 9 -> ActionAttack_read_from(s, p)
              [] action_type = 10 -> [kind |-> "Bird"]
              [] action_type = 12 -> [kind |-> "Transport"]
              [] action_type = 13 -> [kind |-> "Guard"]
              [] action_type = 21 -> [kind |-> "Make", work_timer |-> read_32(s, p)]
              [] action_type = 107 -> [kind |-> "Artifact"],
            p + ParamSize(action_type))

\* The fields read_from_inner reads before the sub_actions, the state
\* starting at p.
UnitAction_head(s, p, version) ==
    LET q == p + StateWidth(version)
    IN  [state |-> IF StateWidth(version) = 1 THEN read_u8(s, p) ELSE read_32(s, p),
         target_object_id |-> read_opt_u32(s, q + 8),
         target_object_id_2 |-> read_opt_u32(s, q + 12),
         target_position |->
             <<read_32(s, q + 16), read_32(s, q + 20), read_32(s, q + 24)>>,
         timer |-> read_32(s, q + 28),
         target_moved_state |-> read_u8(s, q + 32),
         task_id |-> read_opt_u16(s, q + 33),
         sub_action_value |-> read_u8(s, q + 35)]

\* A read that fails: the error is handed up through every caller by `?`.
Fail(r) ==
    /\ result' = r
    /\ pos' = r.pos
    /\ pc' = "done"
    /\ UNCHANGED <<log, output>>

\* One turn of the loop of read_list_from: the action type is read; 0 ends
\* the list, which is returned to the caller (the pending read_from_inner,
\* or the caller of the outermost read_list_from); any other type enters
\* read_from_inner.
ReadListStep ==
    /\ pc = "list"
    /\ IF ~Avail(pos, Len(input), 2) THEN Fail(Err(Len(input)))
       ELSE IF read_u16(input, pos) # 0
       THEN /\ log' = Append(log, [action_type |-> read_u16(input, pos),
                                   outer |-> output, head |-> NoVal,
                                   sub_actions |-> <<>>])
            /\ pos' = pos + 2
            /\ pc' = "inner"
            /\ UNCHANGED <<result, output>>
       ELSE IF log = <<>>
       THEN /\ result' = Ok(output, pos + 2)
            /\ pos' = pos + 2
            /\ pc' = "done"
            /\ UNCHANGED <<log, output>>
       ELSE /\ log' = [log EXCEPT ![Len(log)].sub_actions = output]
            /\ pos' = pos + 2
            /\ pc' = "tail"
            /\ UNCHANGED <<result, output>>
    /\ UNCHANGED <<input, arg, x>>

\* read_from_inner up to its call of read_list_from for the sub_actions,
\* which starts with an empty list.
ReadInnerHead ==
    /\ pc = "inner"
    /\ IF ~Avail(pos, Len(input), HeadSize(arg)) THEN Fail(Err(Len(input)))
       ELSE /\ log' = [log EXCEPT ![Len(log)].head = UnitAction_head(input, pos, arg)]
            /\ output' = <<>>
            /\ pos' = pos + HeadSize(arg)
            /\ pc' = "list"
            /\ UNCHANGED result
    /\ UNCHANGED <<input, arg, x>>

\* read_from_inner after the sub_actions: the sprite id and the parameters
\* of the action type; the action is pushed on the list of the loop that
\* called read_from_inner.
ReadInnerTail ==
    /\ pc = "tail"
    /\ LET call == log[Len(log)]
           params == ActionType_read_from(input, pos + 2, Len(input), call.action_type)
       IN  IF ~Avail(pos, Len(input), 2) THEN Fail(Err(Len(input)))
           ELSE IF params.st # "Ok" THEN Fail(params)
           ELSE /\ output' = Append(call.outer,
                                    [state |-> call.head.state,
                                     target_object_id |-> call.head.target_object_id,
                                     target_object_id_2 |-> call.head.target_object_id_2,
                                     target_position |-> call.head.target_position,
                                     timer |-> call.head.timer,
                                     target_moved_state |-> call.head.target_moved_state,
                                     task_id |-> call.head.task_id,
                                     sub_action_value |-> call.head.sub_action_value,
                                     sub_actions |-> call.sub_actions,
                                     sprite_id |-> read_opt_u16(input, pos),
                                     params |-> params.val])
                /\ log' = SubSeq(log, 1, Len(log) - 1)
                /\ pos' = params.pos
                /\ pc' = "list"
                /\ UNCHANGED result
    /\ UNCHANGED <<input, arg, x>>

\* Save versions, in hundredths: 11.76 and 12.00.
Versions == {1176, 1200}

\* An action to build inputs from: its type, its state and its sub-actions.
Act(t, st, subs) == [action_type |-> t, state |-> st, sub_actions |-> subs]

\* Actions without sub-actions; type 2 has no arm in ActionType::read_from.
Leaves == {Act(t, 5, <<>>) : t \in {1, 9, 2}}

SubLists ==
    {<<>>} \cup {<<a>> : a \in Leaves} \cup {<<a, Act(4, 6, <<>>)>> : a \in Leaves}

TopActions == {Act(t, 8, subs) : t \in {3, 21, 107, 255}, subs \in SubLists}

ActionLists ==
    {<<>>} \cup {<<a>> : a \in TopActions}
    \cup {<<a, Act(13, 9, <<>>)>> : a \in TopActions}

\* The bytes of an action before its sub-actions, and those after them.
HeadBytes(a, version) ==
    write_u16(a.action_type)
      \o (IF StateWidth(version) = 1 THEN write_u8(a.state) ELSE write_32(a.state))
      \o Zeros(8) \o write_32(7) \o write_32(-1) \o Zeros(16)
      \o <<1, 255, 255, 2>>

TailBytes(a) == write_u16(300) \o [i \in 1..ParamSize(a.action_type) |-> i]

\* A list of actions without sub-actions on the wire, ended by the type 0.
LeafListBytes(l, version) ==
    Flatten([i \in 1..Len(l) |->
               HeadBytes(l[i], version) \o <<0, 0>> \o TailBytes(l[i])])
      \o <<0, 0>>

ActionListBytes(l, version) ==
    Flatten([i \in 1..Len(l) |->
               HeadBytes(l[i], version) \o LeafListBytes(l[i].sub_actions, version)
                 \o TailBytes(l[i])])
      \o <<0, 0>>

\* A list on the wire: whole, followed by bytes that look like one more
\* action, or cut short.
ActionStreams(l, version) ==
    {ActionListBytes(l, version), ActionListBytes(l, version) \o <<1, 0, 7>>}
    \cup Prefixes(ActionListBytes(l, version), {1, 2, 3, 20, 45})

InitUnitAction ==
    /\ arg \in Versions
    /\ x \in ActionLists
    /\ input \in ActionStreams(x, arg)
    /\ pos = 0
    /\ output = <<>>
    /\ result = Ok(NoVal, 0)
    /\ log = <<>>
    /\ pc = "list"

NextUnitAction == ReadListStep \/ ReadInnerHead \/ ReadInnerTail

\* read_list_from is sequential code: it keeps taking steps until it returns.
SpecUnitAction ==
    InitUnitAction /\ [][NextUnitAction]_vars /\ WF_vars(NextUnitAction)

-----------------------------------------------------------------------------
(* Properties.                                                             *)

\* The object list of a decoded command, whatever its field is called.
ObjectsOf(c) ==
    IF "objects" \in DOMAIN c THEN c.objects
    ELSE IF "builders" \in DOMAIN c THEN c.builders
    ELSE IF "repairers" \in DOMAIN c THEN c.repairers
    ELSE c.buildings

\* The count field of variant v in the payload b holds the value 0xFF.
CountIsFF(v, b) ==
    /\ Len(b) >= Layout[v].size
    /\ SubSeq(b, Layout[v].at + 1, Layout[v].at + Layout[v].width)
         = (IF Layout[v].width = 4 THEN <<255, 0, 0, 0>> ELSE <<255>>)

\* The first n identifiers at offset p of b all have the top bit clear,
\* so each is an ObjectID that the i32 read of the list codec accepts.
IdsFit(b, p, n) == \A i \in 1..n : b[p + 4 * i] < 128

\* C1: ObjectsList::read_from(input, c) yields the reuse marker and consumes
\* nothing for every c >= 255; for 0 <= c < 255 a decode that succeeds yields
\* an explicit list of exactly the c identifiers on the wire, in wire order,
\* having consumed 4*c bytes, and it does succeed whenever the c identifiers
\* are there and fit; c = 0 yields the explicit empty list, not the marker.
C1_ObjectsListRead ==
    pc = "read" =>
      /\ arg >= 255 => result = Ok(SameAsLast, 0)
      /\ (arg >= 0 /\ arg < 255 /\ result.st = "Ok") =>
           /\ result.val.kind = "List"
           /\ Len(result.val.list) = arg
           /\ IdBytes(result.val.list) = SubSeq(input, 1, 4 * arg)
           /\ result.pos = 4 * arg
      /\ (arg >= 0 /\ arg < 255 /\ Len(input) >= 4 * arg /\ IdsFit(input, 0, arg))
           => result.st = "Ok"
      /\ arg = 0 => result = Ok(List(<<>>), 0)

C1_Witness ==
    /\ pc = "read"
    /\ arg = 3
    /\ input = IdBytes(<<10, 11, 12>>)
    /\ result = Ok(List(<<10, 11, 12>>), 12)

\* C2: for every variant that carries an object list, a payload whose count
\* field holds the byte 0xFF decodes to the reuse marker, never to an
\* explicit list, and no identifier bytes are consumed for the list.
C2_CountFFIsMarker ==
    (pc = "decoded" /\ arg \in ListVariants /\ CountIsFF(arg, input)
       /\ result.st = "Ok")
      => /\ ObjectsOf(result.val) = SameAsLast
         /\ result.pos = Layout[arg].size

\* C3: an Order command whose 32-bit selected count is, as an unsigned
\* value, at least 255 (0xFFFFFFFF included) decodes to the reuse marker and
\* consumes no identifier bytes after the location.
C3_OrderCountMarker ==
    (pc = "decoded" /\ arg = "Order" /\ Len(input) >= 19
       /\ (read_32(input, 7) < 0 \/ read_32(input, 7) >= 255))
      => /\ result.st = "Ok"
         /\ result.val.objects = SameAsLast
         /\ result.pos = 19

\* C4: a Stop payload made of a count byte n in 0..127 and n identifiers
\* decodes to the explicit list of exactly those identifiers in that order,
\* and StopCommand::write_to of the decoded command emits the same 1 + 4*n
\* bytes.
C4_StopRoundTrip ==
    (arg = "Stop" /\ pc \in {"decoded", "reencoded"} /\ Len(input) >= 1
       /\ input[1] \in 0..127 /\ Len(input) >= 1 + 4 * input[1]
       /\ IdsFit(input, 1, input[1]))
      => /\ result.st = "Ok"
         /\ result.val.objects.kind = "List"
         /\ Len(result.val.objects.list) = input[1]
         /\ IdBytes(result.val.objects.list) = SubSeq(input, 2, 1 + 4 * input[1])
         /\ result.pos = 1 + 4 * input[1]
         /\ pc = "reencoded" => output = Written(SubSeq(input, 1, 1 + 4 * input[1]))

C4_Witness ==
    /\ arg = "Stop"
    /\ pc = "reencoded"
    /\ input = <<3>> \o IdBytes(<<10, 11, 12>>)
    /\ result.val.objects = List(<<10, 11, 12>>)
    /\ output = Written(input)

\* A command value whose list is explicit, holds at most 127 identifiers
\* and only identifiers that fit the list codec's i32 read.
ExplicitList(l) ==
    /\ l.kind = "List"
    /\ Len(l.list) <= 127
    /\ \A i \in 1..Len(l.list) : ObjectID_fits(l.list[i])

\* C5: for every Move value x with an explicit list of at most 127
\* identifiers, reading back what MoveCommand::write_to wrote gives x again
\* in all four fields.
C5_MoveRoundTrip ==
    (arg = "Move" /\ pc = "redecoded" /\ ExplicitList(x.objects))
      => /\ result.st = "Ok"
         /\ result.val.player_id = x.player_id
         /\ result.val.target_id = x.target_id
         /\ result.val.location = x.location
         /\ result.val.objects = x.objects

\* C6: for every AIOrder value x with an explicit list of at most 127
\* identifiers (and a target id the encoder can narrow), reading back what
\* AIOrderCommand::write_to wrote gives x again in every field,
\* target_player_id included.
C6_AIOrderRoundTrip ==
    (arg = "AIOrder" /\ pc = "redecoded" /\ ExplicitList(x.objects)
       /\ target_fits_i32(x.target_id))
      => /\ result.st = "Ok"
         /\ result.val = x

\* C7: encoding a command whose list is the reuse marker writes a count
\* field that carries 0xFF and no identifier bytes, and decoding the bytes
\* written yields the reuse marker again.
C7_MarkerRoundTrip ==
    (pc \in {"encoded", "redecoded"} /\ arg \in EncodableListVariants
       /\ ObjectsOf(x) = SameAsLast
       /\ output.st = "Ok")
      => /\ CountIsFF(arg, output.bytes)
         /\ Len(output.bytes) = Layout[arg].size
         /\ pc = "redecoded" =>
              (result.st = "Ok" /\ ObjectsOf(result.val) = SameAsLast)

\* The offset in the stream at which frame i of x starts.
FrameStart(i) == Len(Flatten(SubSeq(x, 1, i - 1)))

\* The frame f has a known opcode and a declared length that covers
\* everything its variant consumes, and the variant accepts its fields.
FrameFits(f) ==
    /\ Len(f) >= 9
    /\ read_32(f, 0) = Len(f) - 8
    /\ f[5] \in KnownOpcodes
    /\ Dispatch(f[5], f, 5, Len(f) - 4, Len(f) - 8).st = "Ok"

\* C8: over a sequence of frames that each have a known opcode, accepted
\* field values and a declared length L_i covering what the variant consumes
\* (trailing padding allowed), Command::read_from consumes exactly
\* 4 + L_i + 4 bytes for frame i, so that every frame starts where the
\* previous one ended and decodes to the command it decodes to when read
\* in isolation.
C8_FrameAlignment ==
    \A i \in 1..Len(log) :
        (\A j \in 1..i : FrameFits(x[j]))
          => /\ log[i].start = FrameStart(i)
             /\ log[i].r.st = "Ok"
             /\ log[i].r.pos = log[i].start + 4 + read_32(x[i], 0) + 4
             /\ log[i].r.val = Command_read_from(x[i], 0).val

C8_Witness ==
    /\ Len(log) = 2
    /\ x[1] = Frame(<<Opcode["Stop"], 1>> \o IdBytes(<<10>>) \o <<238, 238>>)
    /\ x[2] = Frame(<<Opcode["GroupWaypoint"]>> \o <<1, 1, 3, 4>>
                      \o IdBytes(<<12>>) \o <<238>>)
    /\ log[1].r.val.objects = List(<<10>>)
    /\ log[2].r.st = "Ok"
    /\ log[2].r.val.objects = List(<<12>>)
    /\ pos = Len(input)

\* The stream s with every byte at offset k or later changed.
Masked(s, k) == [i \in 1..Len(s) |-> IF i > k THEN (s[i] + 1) % 256 ELSE s[i]]

\* Where the fields of a variant end when it is read at p with nothing
\* bounding it; Flare's two trailing bytes are skipped, not read as fields.
FieldsEnd(id, s, p, len) ==
    IF id = Opcode["Flare"] THEN p + Layout["Flare"].size - 2
    ELSE Dispatch(id, s, p, Len(s), len).pos

C10_UnknownOpcodeIsError ==
    \A i \in 1..Len(log) :
        LET p == log[i].start
        IN  (Avail(p, Len(input), 4) /\ Avail(p + 4, TakeEnd(input, p, read_32(input, p)), 1)
               /\ read_u8(input, p + 4) \notin KnownOpcodes)
              => log[i].r.st = "Err"

\* C11: decoding a BuildWall command whose guard field is not 0xFFFFFFFF,
\* or a Chat action whose leading marker is not -1, yields no record and is
\* returned to the caller as an error.
C11_GuardViolationIsError ==
    pc = "decoded" =>
      /\ (arg = "BuildWall" /\ Len(input) >= 15 /\ read_32(input, 11) # -1)
           => result.st = "Err"
      /\ (arg = "Chat" /\ Len(input) >= 4 /\ read_32(input, 0) # -1)
           => result.st = "Err"

\* C12: when a decoded field value does not fit its identifier or field
\* type (a ViewLock player outside the player ids, an object id of a list
\* with the top bit set, a Game slot-1 value that is no player id, a
\* SetStrategicNumber slot-4 value >= 2^31), decoding yields no record and
\* returns an error to the caller.
C12_NarrowingFailureIsError ==
    pc = "decoded" =>
      /\ (arg = "ViewLock" /\ Len(input) >= 12 /\ ~PlayerID_fits(read_32(input, 8)))
           => result.st = "Err"
      /\ (arg = "Stop" /\ Len(input) >= 1 /\ input[1] \in 1..127
            /\ Len(input) >= 1 + 4 * input[1] /\ ~IdsFit(input, 1, input[1]))
           => result.st = "Err"
      /\ (arg = "Game" /\ Len(input) >= 15 /\ input[1] \in GameSubOpcodes
            /\ ~PlayerID_fits(read_i16(input, 1)))
           => result.st = "Err"
      /\ (arg = "Game" /\ Len(input) >= 15 /\ input[1] = 11
            /\ PlayerID_fits(read_i16(input, 1)) /\ ~i32_fits(read_32(input, 11)))
           => result.st = "Err"

\* C13: for every variant that has an encoder and every frame that decodes
\* successfully and whose declared length L is the opcode byte plus what
\* the variant consumes, writing the decoded command back succeeds and
\* gives a payload of L - 1 bytes.  The payload read here is the whole
\* bounded region of the frame, so L - 1 = Len(input).
C13_LengthFidelity ==
    (pc = "reencoded" /\ result.pos = Len(input))
      => (output.st = "Ok" /\ Len(output.bytes) = Len(input))

\* C14: Sync::read_from consumes 24 bytes when the action checksum is 0 and
\* 356 bytes, 332 of them between the action checksum and the two trailing
\* words, when it is not; checksum, position_checksum and action_checksum
\* are the 2nd, 3rd and 4th words and next_world_time is the last word
\* read.
C14_SyncConsumption ==
    (pc = "decoded" /\ arg = "Sync" /\ Len(input) >= 16)
      => LET total == IF read_32(input, 12) = 0 THEN 24 ELSE 356
         IN  /\ result.st = "Ok" <=> Len(input) >= total
             /\ result.st = "Ok" =>
                  /\ result.pos = total
                  /\ result.val.checksum = read_32(input, 4)
                  /\ result.val.position_checksum = read_32(input, 8)
                  /\ result.val.action_checksum = read_32(input, 12)
                  /\ result.val.next_world_time = read_32(input, total - 4)

C14_Witness ==
    /\ pc = "decoded"
    /\ arg = "Sync"
    /\ Len(input) = 356
    /\ result.st = "Ok"
    /\ result.pos = 356
    /\ result.val.action_checksum = 23
    /\ result.val.next_world_time = 25

\* The sub-opcode bytes that GameCommand::read_from decodes from a payload
\* whose slots are all zero.
DecodableGameSubOpcodes ==
    {sub \in Byte : GameCommand_read_from(GameBytes(sub, 0, 0, 0, 0), 0, 15).st = "Ok"}

\* The slots of a Game payload fit every field a sub-opcode narrows them to.
GameSlotsFit(b) == PlayerID_fits(read_i16(b, 1)) /\ i32_fits(read_32(b, 11))

C16_GameSixteenBytes ==
    (pc = "decoded" /\ arg = "Game" /\ result.st = "Ok") => result.pos = 16

\* C16 (amended): GameCommand::read_from consumes 15 bytes, whatever the
\* sub-opcode (1 + 2 + 2 + 2 + 4 + 4; 16 with the opcode byte of the frame),
\* and needs exactly that many to yield a record.
C16_GameFifteenBytes ==
    (pc = "decoded" /\ arg = "Game")
      => /\ result.st = "Ok" => result.pos = 15
         /\ Len(input) < 15 => result.st = "Err"
         /\ Len(input) >= 15 => (result.pos = 15 /\ result.st # "Err")

C16_Witness ==
    /\ pc = "decoded"
    /\ arg = "Game"
    /\ input = GameBytes(5, 1, 5, F32One, 7)
    /\ result.st = "Ok"
    /\ result.val.status = TRUE
    /\ result.pos = 15

\* C17: the number of parameters of a UserPatchAI command is (L - 4) / 4
\* for the declared frame length L, and every frame that carries k = 0..4
\* parameters (L = 4 + 4k; the payload after the opcode has 3 + 4k bytes)
\* decodes to a record with exactly those k parameters in wire order.
C17_UserPatchAIParams ==
    (pc = "decoded" /\ arg = "UserPatchAI" /\ Len(input) >= 3
       /\ (Len(input) - 3) % 4 = 0 /\ (Len(input) - 3) \div 4 <= 4)
      => /\ result.st = "Ok"
         /\ Len(result.val.params) = (Len(input) - 3) \div 4
         /\ write_32s(result.val.params) = SubSeq(input, 4, Len(input))

\* C18: every encoder of an optional 32-bit target id writes 0xFFFFFFFF for
\* an absent one, and every decoder reads 0xFFFFFFFF as absent; the
\* optional 16-bit target unit type of SetGatherPoint is written as 0xFFFF
\* when absent, and 0xFFFF is read as absent.
C18_SentinelLaw ==
    /\ (pc \in {"encoded", "redecoded"} /\ arg \in DOMAIN TargetAt /\ output.st = "Ok")
         => /\ x.target_id = None => read_32(output.bytes, TargetAt[arg]) = -1
            /\ (arg = "SetGatherPoint" /\ x.target_type_id = None)
                 => read_u16(output.bytes, 7) = 65535
    /\ (pc \in {"decoded", "redecoded"} /\ arg \in DOMAIN TargetAt /\ result.st = "Ok")
         => /\ read_32(input, TargetAt[arg]) = -1 => result.val.target_id = None
            /\ (arg = "SetGatherPoint" /\ read_u16(input, 7) = 65535)
                 => result.val.target_type_id = None

C18_Witness ==
    /\ pc = "redecoded"
    /\ arg = "SetGatherPoint"
    /\ x.target_id = None
    /\ x.target_type_id = None
    /\ SubSeq(input, 4, 9) = <<255, 255, 255, 255, 255, 255>>
    /\ result.st = "Ok"
    /\ result.val.target_id = None
    /\ result.val.target_type_id = None

\* The variants of C19.
RoundTripVariants ==
    {"Order", "Stop", "Work", "GroupWaypoint", "UnitAIState", "Guard", "Follow",
     "Repair", "Patrol", "FormFormation", "AttackGround"}

\* C19: for Order, Stop, Work, GroupWaypoint, UnitAIState, Guard, Follow,
\* Repair, Patrol, FormFormation and AttackGround, and every value x with
\* an explicit list of at most 127 ids (at most 10 waypoints for Patrol),
\* write_to succeeds and reading back what it wrote gives x again in every
\* field.
C19_ListVariantsRoundTrip ==
    (pc \in {"encoded", "redecoded"} /\ arg \in RoundTripVariants
       /\ ExplicitList(ObjectsOf(x))
       /\ (arg = "Patrol" => Len(x.waypoints) <= 10))
      => /\ output.st = "Ok"
         /\ pc = "redecoded" => (result.st = "Ok" /\ result.val = x)

\* C20: for every SetGatherPoint value x with an explicit list of at most
\* 127 buildings, write_to succeeds and reading back what it wrote gives x
\* again in every field, whether target object, target unit type and
\* location are present or absent.
C20_SetGatherPointRoundTrip ==
    (pc \in {"encoded", "redecoded"} /\ arg = "SetGatherPoint"
       /\ ExplicitList(x.buildings))
      => /\ output.st = "Ok"
         /\ pc = "redecoded" => (result.st = "Ok" /\ result.val = x)

\* The variants of fixed shape that have both directions.
FixedShapeVariants ==
    {"Create", "AddResource", "Resign", "Make", "Research", "CancelBuild", "Queue",
     "SellResource", "BuyResource", "ViewLock"}

\* C21: for Create, AddResource, Resign, Make, Research, CancelBuild, Queue,
\* SellResource, BuyResource and ViewLock, and every value x, write_to
\* succeeds and writes as many bytes as any other value of the variant
\* (the fixed part of its layout; the same number for SellResource and
\* BuyResource), and reading back what it wrote gives x again.
C21_FixedShapeRoundTrip ==
    (pc \in {"encoded", "redecoded"} /\ arg \in FixedShapeVariants)
      => /\ output.st = "Ok"
         /\ \A y \in Values(arg) :
               write_to(arg, y).st = "Ok"
                 => Len(write_to(arg, y).bytes) = Len(output.bytes)
         /\ arg = "SellResource"
               => \A y \in Values("BuyResource") :
                     Len(write_to("BuyResource", y).bytes) = Len(output.bytes)
         /\ pc = "redecoded" => (result.st = "Ok" /\ result.val = x)

\* The variant an opcode of the table names.
VariantOf(id) == CHOOSE v \in Variants : Opcode[v] = id

\* Sequences of earlier frames, carrying different explicit lists or none.
EarlierFrames ==
    {<<>>} \cup {<<f>> : f \in ProbeFrames}
    \cup {<<f, g>> : f \in ProbeFrames, g \in ProbeFrames}

\* The list-carrying variants whose decoder reads the count with read_i8.
SignedCountVariants ==
    {"Stop", "Work", "Move", "AIOrder", "Patrol", "FormFormation", "Build",
     "BuildWall", "AttackGround", "Ungarrison", "UnitOrder", "SetGatherPoint"}

\* The count of the payload b as the decoder of the list-carrying variant v
\* reads it: a 32-bit value, a signed byte or an unsigned byte.
CountAsRead(v, b) ==
    IF Layout[v].width = 4 THEN read_32(b, Layout[v].at)
    ELSE IF v \in SignedCountVariants THEN read_i8(b, Layout[v].at)
    ELSE read_u8(b, Layout[v].at)

\* Command::read_from on the frame f placed after the frames pre.
ReadAfter(pre, f) == Command_read_from(Flatten(pre) \o f, Len(Flatten(pre)))

\* C22: the outcome of Command::read_from for a whole frame that starts
\* where the cursor is depends on that frame's bytes alone: it is the
\* outcome the same frame has after any other sequence of earlier frames,
\* whatever explicit lists those carry; and when the count its decoder
\* reads is a marker count, the list is SameAsLast, never a list of
\* identifiers.
C22_NoStateAcrossRecords ==
    \A i \in 1..Len(log) :
        (log[i].start = FrameStart(i) /\ Len(x[i]) >= 8
           /\ read_32(x[i], 0) = Len(x[i]) - 8)
          => /\ \A pre \in EarlierFrames :
                   /\ ReadAfter(pre, x[i]).st = log[i].r.st
                   /\ ReadAfter(pre, x[i]).val = log[i].r.val
                   /\ ReadAfter(pre, x[i]).pos - Len(Flatten(pre))
                        = log[i].r.pos - log[i].start
             /\ (/\ log[i].r.st = "Ok"
                 /\ VariantOf(x[i][5]) \in ListVariants
                 /\ CountAsRead(VariantOf(x[i][5]), SubSeq(x[i], 6, Len(x[i]) - 4))
                      >= MarkerCount)
                  => ObjectsOf(log[i].r.val) = SameAsLast

C22_Witness ==
    /\ Len(log) = 2
    /\ log[1].r.st = "Ok"
    /\ log[1].r.val.type = "Stop"
    /\ log[1].r.val.objects = List(<<10, 11>>)
    /\ log[2].start = FrameStart(2)
    /\ log[2].r.st = "Ok"
    /\ log[2].r.val.type = "Guard"
    /\ log[2].r.val.objects = SameAsLast

\* The opcode table: each opcode byte with the variant it names.
OpcodeTable ==
    {<<0, "Order">>, <<1, "Stop">>, <<2, "Work">>, <<3, "Move">>, <<4, "Create">>,
     <<5, "AddResource">>, <<10, "AIOrder">>, <<11, "Resign">>,
     <<16, "GroupWaypoint">>, <<18, "UnitAIState">>, <<19, "Guard">>,
     <<20, "Follow">>, <<21, "Patrol">>, <<23, "FormFormation">>,
     <<53, "UserPatchAI">>, <<100, "Make">>, <<101, "Research">>, <<102, "Build">>,
     <<103, "Game">>, <<105, "BuildWall">>, <<106, "CancelBuild">>,
     <<107, "AttackGround">>, <<110, "Repair">>, <<111, "Ungarrison">>,
     <<115, "Flare">>, <<117, "UnitOrder">>, <<119, "Queue">>,
     <<120, "SetGatherPoint">>, <<122, "SellResource">>, <<123, "BuyResource">>,
     <<127, "Unknown7F">>, <<128, "BackToWork">>}

\* C23: the opcodes Command::read_from dispatches are those of the opcode
\* table, and a frame that decodes successfully yields the variant the
\* table names for its opcode byte, never another one.
C23_OpcodeDispatch ==
    /\ KnownOpcodes = {e[1] : e \in OpcodeTable}
    /\ \A i \in 1..Len(log) :
          log[i].r.st = "Ok"
            => <<read_u8(input, log[i].start + 4), log[i].r.val.type>> \in OpcodeTable

C23_Witness ==
    /\ Len(log) = 2
    /\ read_u8(input, log[1].start + 4) = 20
    /\ log[1].r.st = "Ok"
    /\ log[1].r.val.type = "Follow"
    /\ read_u8(input, log[2].start + 4) = 19
    /\ log[2].r.st = "Ok"
    /\ log[2].r.val.type = "Guard"

\* C24: PatrolCommand::read_from consumes the whole buffer of 10 X values
\* followed by 10 Y values whatever the waypoint count, and for a count
\* k <= 10 yields exactly k waypoints, waypoint i being (i-th X, i-th Y);
\* PatrolCommand::write_to writes the waypoint count and the same buffer,
\* X values first, the unused slots holding 0.
C24_PatrolWaypoints ==
    /\ (pc = "decoded" /\ arg = "Patrol")
         => /\ Len(input) < 83 => result.st = "Err"
            /\ Len(input) >= 83 => result.pos >= 83
            /\ (Len(input) >= 83 /\ read_u8(input, 1) <= 10 /\ read_u8(input, 0) = 0)
                 => result.st = "Ok"
            /\ (result.st = "Ok" /\ read_u8(input, 1) <= 10)
                 => /\ Len(result.val.waypoints) = read_u8(input, 1)
                    /\ \A i \in 1..read_u8(input, 1) :
                          result.val.waypoints[i]
                            = <<read_32(input, 3 + 4 * (i - 1)),
                                read_32(input, 43 + 4 * (i - 1))>>
    /\ (pc = "encoded" /\ arg = "Patrol" /\ output.st = "Ok")
         => /\ Len(x.waypoints) <= 10
            /\ Len(output.bytes) = 83 + 4 * ObjectsList_len(x.objects)
            /\ read_u8(output.bytes, 1) = Len(x.waypoints)
            /\ \A i \in 1..10 :
                  /\ read_32(output.bytes, 3 + 4 * (i - 1))
                       = (IF i <= Len(x.waypoints) THEN x.waypoints[i][1] ELSE 0)
                  /\ read_32(output.bytes, 43 + 4 * (i - 1))
                       = (IF i <= Len(x.waypoints) THEN x.waypoints[i][2] ELSE 0)

C24_Witness ==
    /\ pc = "decoded"
    /\ arg = "Patrol"
    /\ Len(input) = 83
    /\ read_u8(input, 1) = 2
    /\ result.st = "Ok"
    /\ result.pos = 83
    /\ result.val.waypoints = <<<<1, 101>>, <<2, 102>>>>

\* The stream s with the byte at offset k changed.
Poked(s, k) == [s EXCEPT ![k + 1] = (s[k + 1] + 1) % 256]

\* C25: an AIOrder payload whose selected count is 1 decodes to the
\* explicit list of the one identifier inlined at offset 3, and nothing is
\* read after the 39 bytes of the fixed part; with any other count the list
\* is what ObjectsList::read_from yields for that count on the bytes after
\* the fixed part, and the inlined identifier has no effect on the outcome.
C25_AIOrderSingleObject ==
    (pc = "decoded" /\ arg = "AIOrder" /\ Len(input) >= 39 /\ result.st # "Panic")
      => /\ read_i8(input, 0) = 1
              => /\ result.st = "Ok"
                 /\ result.val.objects = List(<<read_32(input, 3)>>)
                 /\ result.pos = 39
         /\ read_i8(input, 0) # 1
              => /\ result.st = ObjectsList_read_from(input, 39, Len(input),
                                                      read_i8(input, 0)).st
                 /\ result.pos = ObjectsList_read_from(input, 39, Len(input),
                                                       read_i8(input, 0)).pos
                 /\ result.st = "Ok"
                      => result.val.objects
                           = ObjectsList_read_from(input, 39, Len(input),
                                                   read_i8(input, 0)).val
                 /\ \A k \in 3..6 :
                       AIOrderCommand_read_from(Poked(input, k), 0, Len(input)) = result

C25_Witness ==
    /\ pc = "decoded"
    /\ arg = "AIOrder"
    /\ read_i8(input, 0) = 1
    /\ read_32(input, 3) = 16843009
    /\ SubSeq(input, 40, Len(input)) = IdBytes(<<10>>)
    /\ result.st = "Ok"
    /\ result.val.objects = List(<<16843009>>)
    /\ result.pos = 39

\* C26: for a frame with declared length L >= 1 and a known opcode whose
\* variant decoder fails with an I/O error inside the bounded region, the
\* whole frame and its world time being in the stream, Command::read_from
\* returns the error having consumed exactly 4 + L + 4 bytes, so the next
\* read starts at the next action.
C26_AlignmentAfterError ==
    \A i \in 1..Len(log) :
        LET p == log[i].start
            len == read_32(input, p)
        IN  (/\ Avail(p, Len(input), 4) /\ len >= 1
             /\ Avail(p + 4, Len(input), len + 4)
             /\ read_u8(input, p + 4) \in KnownOpcodes
             /\ Dispatch(read_u8(input, p + 4), input, p + 5, p + 4 + len, len).st
                  = "Err")
              => /\ log[i].r.st = "Err"
                 /\ log[i].r.pos = p + 4 + len + 4
                 /\ i < Len(log) => log[i + 1].start = p + 4 + len + 4

C26_Witness ==
    /\ Len(log) = 2
    /\ x[1] = Frame(<<Opcode["Guard"]>> \o FixedPart("Guard", 255, <<1>>)
                      \o <<10, 0, 0>>)
    /\ log[1].r.st = "Err"
    /\ log[1].r.pos = Len(x[1])
    /\ log[2].start = Len(x[1])
    /\ log[2].r.st = "Ok"
    /\ log[2].r.val.type = "Resign"

\* C27: every explicit object list a command decoder returns holds at most
\* 254 identifiers, and at most 127 when the variant reads its count as a
\* signed byte; a count of 255 or more only ever gives the reuse marker.
C27_ExplicitListBound ==
    (pc \in {"decoded", "redecoded"} /\ arg \in ListVariants /\ result.st = "Ok"
       /\ ObjectsOf(result.val).kind = "List")
      => /\ Len(ObjectsOf(result.val).list) <= MarkerCount - 1
         /\ arg \in SignedCountVariants
              => Len(ObjectsOf(result.val).list) <= MaxSignedCount

C27_Witness ==
    /\ pc = "decoded"
    /\ arg = "Guard"
    /\ read_u8(input, 0) = MarkerCount - 1
    /\ result.st = "Ok"
    /\ result.val.objects.kind = "List"
    /\ Len(result.val.objects.list) = MarkerCount - 1

\* C28: in a BuildWall payload whose guard holds 0xFFFFFFFF, a count of -1
\* yields the reuse marker and no identifier bytes are consumed; a count
\* of 1 whose identifier is -1 yields the explicit empty list, 4 bytes
\* consumed; any other count n >= 0 yields the explicit list of the n
\* identifiers that follow, in wire order, 4*n bytes consumed, and does so
\* whenever those identifiers are there and fit.
C28_BuildWallBuilders ==
    (pc = "decoded" /\ arg = "BuildWall" /\ Len(input) >= 15
       /\ read_32(input, 11) = -1)
      => LET n == read_i8(input, 0)
             lone == n = 1 /\ Len(input) >= 19 /\ read_32(input, 15) = -1
         IN  /\ n = -1 => (result.st = "Ok" /\ result.val.builders = SameAsLast
                             /\ result.pos = 15)
             /\ lone => (result.st = "Ok" /\ result.val.builders = List(<<>>)
                           /\ result.pos = 19)
             /\ (n >= 0 /\ ~lone /\ result.st = "Ok")
                  => /\ result.val.builders.kind = "List"
                     /\ Len(result.val.builders.list) = n
                     /\ IdBytes(result.val.builders.list) = SubSeq(input, 16, 15 + 4 * n)
                     /\ result.pos = 15 + 4 * n
             /\ (n >= 0 /\ ~lone /\ Len(input) >= 15 + 4 * n /\ IdsFit(input, 15, n))
                  => result.st = "Ok"

C28_Witness ==
    /\ pc = "decoded"
    /\ arg = "BuildWall"
    /\ Len(input) = 19
    /\ read_i8(input, 0) = 1
    /\ read_32(input, 11) = -1
    /\ read_32(input, 15) = -1
    /\ result.st = "Ok"
    /\ result.pos = 19
    /\ result.val.builders = List(<<>>)

\* C29: for every variant that has a write_to and every record its
\* read_from returns, write_to of that record completes; so for a record
\* with a target id in 2^31 .. 2^32 - 2 and for one with the longest
\* explicit list its decoder produces.
C29_EncodingTotal ==
    (pc = "reencoded" /\ arg \in Encodable) => output.st = "Ok"

\* The name of the ActionType variant of a supported action type.
KindOf(t) ==
    CASE t = 1 -> "MoveTo" [] t = 3 -> "Enter" [] t = 4 -> "Explore"
      [] t = 9 -> "Attack" [] t = 10 -> "Bird" [] t = 12 -> "Transport"
      [] t = 13 -> "Guard" [] t = 21 -> "Make" [] t = 107 -> "Artifact"

\* Every action type of the list l, sub-actions included, is supported.
AllSupported(l) ==
    \A i \in 1..Len(l) :
        /\ l[i].action_type \in SupportedTypes
        /\ \A j \in 1..Len(l[i].sub_actions) :
              l[i].sub_actions[j].action_type \in SupportedTypes

\* The decoded list d holds the actions of l, in the order of l.
SameActions(d, l) ==
    /\ Len(d) = Len(l)
    /\ \A i \in 1..Len(l) :
          /\ d[i].params.kind = KindOf(l[i].action_type)
          /\ d[i].state = l[i].state
          /\ Len(d[i].sub_actions) = Len(l[i].sub_actions)
          /\ \A j \in 1..Len(l[i].sub_actions) :
                /\ d[i].sub_actions[j].params.kind
                     = KindOf(l[i].sub_actions[j].action_type)
                /\ d[i].sub_actions[j].state = l[i].sub_actions[j].state
                /\ d[i].sub_actions[j].sub_actions = <<>>

\* read_list_from returns on every input.
UnitActionTerminates == <>(pc = "done")

\* Every step that does not end the call consumes at least 2 bytes.
UnitActionAdvances == [][pc' # "done" => pos' >= pos + 2]_vars

\* What read_list_from returns: the actions up to the first type 0 of its
\* own level, in stream order, the bytes after that type left unread; or
\* an error.
UnitActionOutcome ==
    pc = "done"
      => /\ result.st \in {"Ok", "Err"}
         /\ result.st = "Ok"
              <=> (Len(input) >= Len(ActionListBytes(x, arg)) /\ AllSupported(x))
         /\ result.st = "Ok"
              => /\ SameActions(result.val, x)
                 /\ result.pos = Len(ActionListBytes(x, arg))

\* C30: UnitAction::read_list_from returns on every finite input; it
\* returns the actions read up to the first action type 0 of its own
\* nesting level, in stream order, each with its own sub_actions, or an
\* error when the input is exhausted or an action type is not supported;
\* and every step of its loop and every call of read_from_inner consumes
\* at least 2 bytes.
C30_ReadListTerminates ==
    UnitActionTerminates /\ UnitActionAdvances /\ []UnitActionOutcome

====
